---------------------------- MODULE Spec2Model ----------------------------
(***************************************************************************)
(* A model of asciirender (src/run.py): the chunk streaming of ForestWorld, *)
(* the generation of a ForestChunk, the near-plane clip and the two        *)
(* rasterisation pipelines of Renderer.                                    *)
(*                                                                         *)
(* Numbers.  TLC's integers are 32-bit signed, so a 32-bit unsigned value  *)
(* of the program is a pair <<hi, lo>> of 16-bit limbs.  A float of the    *)
(* program is a fixed-point integer; the unit is stated where it is used.  *)
(***************************************************************************)
EXTENDS Integers, Sequences, FiniteSets, TLC

----------------------------------------------------------------------------
(* Small helpers *)

Max(a, b) == IF a >= b THEN a ELSE b

Min(a, b) == IF a <= b THEN a ELSE b

Abs(a) == IF a < 0 THEN -a ELSE a

----------------------------------------------------------------------------
(* 32-bit unsigned arithmetic on limb pairs <<hi, lo>>,  x & 0xFFFFFFFF *)

W16 == 65536

\* an integer (possibly negative) masked to 32 bits
U32(v) == <<(v \div W16) % W16, v % W16>>

RECURSIVE BitXor(_, _, _)
BitXor(a, b, n) ==
    IF n = 0 THEN 0
    ELSE (((a % 2) + (b % 2)) % 2) + (2 * BitXor(a \div 2, b \div 2, n - 1))

\* the xor of two 4-bit values, tabled
XorNibble == [a \in 0..15 |-> [b \in 0..15 |-> BitXor(a, b, 4)]]

\* the xor of two 16-bit limbs
Xor16(a, b) ==
    XorNibble[a % 16][b % 16]
    + (16 * XorNibble[(a \div 16) % 16][(b \div 16) % 16])
    + (256 * XorNibble[(a \div 256) % 16][(b \div 256) % 16])
    + (4096 * XorNibble[a \div 4096][b \div 4096])

\* a ^ b
Xor32(a, b) == <<Xor16(a[1], b[1]), Xor16(a[2], b[2])>>

\* (a * k) & 0xFFFFFFFF  for a 32-bit a and a constant k = <<khi, klo>>,
\* klo * 65535 < 2^31
Mul32(a, k) ==
    LET p == a[2] * k[2]
    IN  <<(((a[2] * k[1]) % W16) + ((a[1] * k[2]) % W16) + (p \div W16)) % W16,
          p % W16>>

\* (v * k) & 0xFFFFFFFF  for a small signed integer v
MulInt32(v, k) ==
    LET p == v * k[2]
    IN  <<((v * k[1]) + (p \div W16)) % W16, p % W16>>

\* (a + c) & 0xFFFFFFFF  for a small non-negative c
Add32(a, c) ==
    LET s == a[2] + c
    IN  <<(a[1] + (s \div W16)) % W16, s % W16>>

\* 1103515245 = 0x41C64E6D, 73856093 = 0x0466F45D, 19349663 = 0x0127409F,
\* 0xDEADBEEF
LCG_MUL == <<16838, 20077>>

LCG_INC == 12345

HASH_X == <<1126, 62557>>

HASH_Z == <<295, 16543>>

DEADBEEF == <<57005, 48879>>

----------------------------------------------------------------------------
(* Terrain noise *)

\* _terrain_hash(ix, iz, seed): the numerator h & 0xFFFF of the returned
\* value (h & 0xFFFF) / 0xFFFF; the seed sd is a 32-bit limb pair
_terrain_hash(ix, iz, sd) ==
    LET h1 == Add32(Mul32(sd, LCG_MUL), LCG_INC)
        h2 == Xor32(h1, MulInt32(ix, HASH_X))
        h3 == Xor32(Add32(Mul32(h2, LCG_MUL), LCG_INC), MulInt32(iz, HASH_Z))
    IN  h3[2]

\* chunk_size = 12.0 (an even integer: a chunk centre cx*cs + cs*0.5 is a
\* whole number of world units)
CHUNK_SIZE == 12

\* mtn_scale = 70.0
MTN_SCALE == 70

\* threshold = 0.70:  noise > 0.70  <=>  numerator > 0.70 * 16 * 65535
\* = 734001.6
MTN_THRESHOLD == 734001

\* floor(d * n / m) for |d| < 2^20, 0 <= n <= m < 2^19, without leaving
\* 32 bits
MulDiv(d, n, m) ==
    LET a == d \div 256
        b == d % 256
    IN  (((a * n) \div m) * 256) + (((((a * n) % m) * 256) + (b * n)) \div m)

\* smoothstep  f*f*(3.0 - 2.0*f)  of f = r / MTN_SCALE, as a numerator over
\* MTN_SCALE^3
Smooth(r) == r * r * ((3 * MTN_SCALE) - (2 * r))

\* the landmark test of chunk_has_mountain:
\* dmx*dmx + dmz*dmz < (mtn_radius * 3.0) ** 2  with mtn_cx, mtn_cz = 6, 45
\* and mtn_radius = 18
NearLandmark(cx, cz, cs) ==
    LET dmx == (cx * cs) + (cs \div 2) - 6
        dmz == (cz * cs) + (cs \div 2) - 45
    IN  (dmx * dmx) + (dmz * dmz) < (18 * 3) * (18 * 3)

\* the smoothed value noise of the mountain layer at (wx, wz), as a
\* numerator over 16 * 0xFFFF
MtnNoise(wx, wz, sd) ==
    LET ix  == wx \div MTN_SCALE
        iz  == wz \div MTN_SCALE
        fx  == Smooth(wx % MTN_SCALE)
        fz  == Smooth(wz % MTN_SCALE)
        one == MTN_SCALE * MTN_SCALE * MTN_SCALE
        mtn_seed == Xor32(U32(sd), DEADBEEF)
        h00 == 16 * _terrain_hash(ix, iz, mtn_seed)
        h10 == 16 * _terrain_hash(ix + 1, iz, mtn_seed)
        h01 == 16 * _terrain_hash(ix, iz + 1, mtn_seed)
        h11 == 16 * _terrain_hash(ix + 1, iz + 1, mtn_seed)
        h0  == h00 + MulDiv(h10 - h00, fx, one)
        h1  == h01 + MulDiv(h11 - h01, fx, one)
    IN  h0 + MulDiv(h1 - h0, fz, one)

\* the mountain test without the landmark
noise_has_mountain(cx, cz, cs, sd) ==
    MtnNoise((cx * cs) + (cs \div 2), (cz * cs) + (cs \div 2), sd)
        > MTN_THRESHOLD

chunk_has_mountain(cx, cz, cs, sd) ==
    IF NearLandmark(cx, cz, cs) THEN TRUE
    ELSE MtnNoise((cx * cs) + (cs \div 2), (cz * cs) + (cs \div 2), sd)
             > MTN_THRESHOLD

----------------------------------------------------------------------------
(* ForestChunk *)

\* ForestChunk._chunk_seed(world_seed, cx, cz), a 32-bit limb pair
_chunk_seed(world_seed, cx, cz) ==
    LET h0 == U32(world_seed)
        h1 == Xor32(Add32(Mul32(h0, LCG_MUL), LCG_INC), MulInt32(cx, HASH_X))
    IN  Xor32(Add32(Mul32(h1, LCG_MUL), LCG_INC), MulInt32(cz, HASH_Z))

\* random.Random(seed) and rng.random().  The Mersenne Twister itself is not
\* modelled: the stream is a stand-in whose n-th draw is, like the real one,
\* a function of the seed and of the number of draws made so far.  A draw is
\* a value of [0, 1) in hundredths.
RandomNew(sd) == sd

RandomStep(rng) == Add32(Mul32(rng, LCG_MUL), LCG_INC)

RandomValue(rng) == (RandomStep(rng)[1] * 100) \div W16

\* ForestChunk.CELL_GRID
CELL_GRID == 4

\* ForestChunk.OBJ_WEIGHTS, cumulative selection against one draw (in
\* hundredths): tree 0.30, rock 0.20, bush 0.25, empty 0.25
ObjType(roll) ==
    IF roll < 30 THEN "tree"
    ELSE IF roll < 50 THEN "rock"
    ELSE IF roll < 75 THEN "bush"
    ELSE "empty"

\* the number of draws one object takes after its roll: jx, jz, angle, then
\* height (tree), scale + rh, offx, offz inside make_rock (rock), scale (bush)
ObjDraws(t) == IF t = "tree" THEN 4 ELSE IF t = "rock" THEN 7 ELSE 4

\* the number of faces make_pine_tree (4 trunk quads + 3 tiers of 4
\* triangles), make_rock (4) and make_bush (4) return
ObjFaces(t) == IF t = "tree" THEN 16 ELSE 4

RECURSIVE DrawN(_, _)
\* the next n draws of the stream
DrawN(rng, n) ==
    IF n = 0 THEN <<>>
    ELSE <<RandomValue(rng)>> \o DrawN(RandomStep(rng), n - 1)

RECURSIVE StepN(_, _)
StepN(rng, n) == IF n = 0 THEN rng ELSE StepN(RandomStep(rng), n - 1)

\* make_terrain_grid(cx, cz, cs, seed, grid_res): grid_res * grid_res
\* wireframe quads whose heights are terrain_height at the grid points, a
\* function of (cx, cz, cs, seed, grid_res); kept as that tuple
make_terrain_grid(cx, cz, cs, sd, grid_res) ==
    [kind |-> "terrain", at |-> <<cx, cz, cs, sd, grid_res>>,
     draws |-> <<>>, faces |-> grid_res * grid_res]

RECURSIVE PlaceObjects(_, _, _, _, _, _)
\* the cell loop of ForestChunk._generate from cell number i (gi = i \div 4,
\* gj = i % 4): one face group per placed object.  The object's geometry is
\* a function of the cell, of the draws it took and, through
\* terrain_height(wx, wz, world_seed), of the world seed.
PlaceObjects(i, rng, cx, cz, cs, world_seed) ==
    IF i = CELL_GRID * CELL_GRID THEN <<>>
    ELSE LET roll == RandomValue(rng)
             r1   == RandomStep(rng)
             t    == ObjType(roll)
         IN  IF t = "empty"
             THEN PlaceObjects(i + 1, r1, cx, cz, cs, world_seed)
             ELSE <<[kind  |-> t,
                     at    |-> <<cx, cz, cs, world_seed, i>>,
                     draws |-> DrawN(r1, ObjDraws(t)),
                     faces |-> ObjFaces(t)]>>
                  \o PlaceObjects(i + 1, StepN(r1, ObjDraws(t)),
                                  cx, cz, cs, world_seed)

\* ForestChunk._generate(world_seed): the face list, as face groups
_generate(cx, cz, cs, world_seed, terrain_only) ==
    LET rng == RandomNew(_chunk_seed(world_seed, cx, cz))
    IN  IF terrain_only
        THEN <<make_terrain_grid(cx, cz, cs, world_seed, 3)>>
        ELSE PlaceObjects(0, rng, cx, cz, cs, world_seed)
             \o <<make_terrain_grid(cx, cz, cs, world_seed, 6)>>

\* ForestChunk(cx, cz, chunk_size, world_seed, terrain_only)
ForestChunk(cx, cz, cs, world_seed, terrain_only) ==
    [cx |-> cx, cz |-> cz, chunk_size |-> cs, terrain_only |-> terrain_only,
     face_data |-> _generate(cx, cz, cs, world_seed, terrain_only)]

----------------------------------------------------------------------------
(* ForestWorld: state *)

VARIABLES
    seed,               \* ForestWorld.seed
    render_distance,    \* ForestWorld.render_distance
    chunks,             \* ForestWorld.chunks: (cx, cz) -> ForestChunk
    mtn_cache,          \* ForestWorld._mtn_cache: (cx, cz) -> bool
    last_mtn_chunks,    \* ForestWorld._last_mtn_chunks
    world_cam_pos,      \* ForestWorld._cam_pos: which Vec3 object it is
    special_tree,       \* _special_tree_spawned, special_tree_pos and
                        \* special_tree_face_data
    camera,             \* the Camera handed to update(): its position
    scan_order,         \* the iteration order of a Python set of keys
    mode,               \* which inputs the environment may still give
    calls,              \* update() calls made so far
    stable,             \* consecutive update() calls with the same camera
                        \* chunk and render distance (saturating)
    last_update,        \* what the last update() computed and did
    evicted,            \* (cx, cz) -> the chunk as it was when last unloaded
    generated           \* (cx, cz, terrain_only) -> the chunks ever built
                        \* for that key, and how many times

world_vars == <<seed, render_distance, chunks, mtn_cache, last_mtn_chunks,
                world_cam_pos, special_tree>>

ghost_vars == <<calls, stable, last_update, evicted, generated>>

(* Renderer: state of one render call *)

VARIABLES
    model_faces,        \* model.get_face_data(): the faces handed to render()
    renderer,           \* which path render() takes, Renderer.fog_distance
                        \* and Renderer.draw_edges
    visible,            \* the local list visible of the render call
    gathered,           \* per face, what the gather loop computed for it
    buffer,             \* the local buffer: pixel -> character
    zbuffer,            \* the local zbuffer: pixel -> depth
    rpc,                \* the position of the render call: phase and face
    rlog,               \* the fills and edge drawings of the call, in order
    clip_io             \* the argument and the result of a call of
                        \* _clip_polygon_near

render_vars == <<model_faces, renderer, visible, gathered, buffer, zbuffer,
                 rpc, rlog, clip_io>>

(* Camera and Model objects *)

VARIABLES
    cam,                \* a Camera: position, yaw, pitch, right, up, forward
    cam_op,             \* the last call on cam, cam as it was before the
                        \* call, the number of calls and the sum of all dyaw
    mdl,                \* a Model: _original_vertices, FACES, vertices,
                        \* _orientation, _frame_count
    mdl_op,             \* the last call on mdl, the angles of the last
                        \* rotate, and mdl as it was before the call
    face_data           \* what the last get_face_data() returned

camera_vars == <<cam, cam_op>>

model_vars == <<mdl, mdl_op, face_data>>

(* ForestWorld: the state of its face-gathering path *)

VARIABLES
    world_cam_forward,  \* ForestWorld._cam_forward
    last_face_count,    \* ForestWorld._last_face_count
    world_faces         \* what the last ForestWorld.get_face_data() returned,
                        \* and the world and the camera as they were when it
                        \* was called

forest_vars == <<world_cam_forward, last_face_count, world_faces>>

\* one call of chunk_has_mountain: its arguments and what it returned
VARIABLES mtn_io

\* one call of Renderer._draw_line: its arguments and the walk so far
VARIABLES line_io

\* the SpinningModel application: where main and run stand, and the frames
VARIABLES app

app_vars == <<mtn_io, line_io, app>>

object_vars == <<camera_vars, model_vars, forest_vars, app_vars>>

(* Bounds of the model *)

\* update() calls per behaviour when the camera moves freely
MaxCalls == 3

\* update() calls made before the camera comes to rest, in the behaviours
\* where it then stays put
MaxPre == 1

\* the value at which the count of stable calls saturates
StableCap == 22

\* update() calls per behaviour when every entry of the mountain cache is
\* followed
MaxCacheCalls == 2

\* the largest N of --frame N tried
MaxFrameArg == 2

\* the frames the run loop displays before the behaviour is cut
MaxAppFrames == 2

\* update() calls at one place in the behaviours that are followed until
\* every tier is loaded: the 544 tier-2 chunks of render distance 4 take 68
SettleCap == 70

\* SpinningModel.update() calls per behaviour when the camera height varies
MaxFogUpdates == 2

\* the world seeds tried (--seed, default 42)
Seeds == {42}

\* the render distances tried (--render-dist default 2; update() raises it
\* by up to 4 on high ground)
RenderDistances == {1, 4}

\* camera positions (x, y, z) in world units: the spawn point (6, 1.5, 6)
\* in chunk (0, 0), a point of chunk (7, 7) and a point of chunk (20, 0)
CamPositions == {<<6, 1, 6>>, <<90, 1, 90>>, <<246, 1, 6>>}

\* the base render distances tried (--render-dist, default 2) where
\* SpinningModel.update() raises the render distance with the camera height
FogBases == {1, 2}

\* Python iterates a set in an order the language leaves open; the model
\* fixes one per world: the order the keys were inserted in, or its reverse
ScanOrders == {"asc", "desc"}

----------------------------------------------------------------------------
(* ForestWorld.update *)

\* cam_cx, cam_cz = floor(position.x / cs), floor(position.z / cs)
CamChunk(pos, cs) == <<pos[1] \div cs, pos[3] \div cs>>

\* {(c + dx, c + dz) : dx, dz in range(-r, r + 1)}
Square(c, r) == {<<c[1] + dx, c[2] + dz>> : dx \in (-r)..r, dz \in (-r)..r}

InSquare(k, c, r) == Abs(k[1] - c[1]) <= r /\ Abs(k[2] - c[2]) <= r

\* tier 1: needed
Tier1(c, rd) == Square(c, rd)

\* terrain_rd = max(8, rd * 3)
TerrainRd(rd) == Max(8, rd * 3)

\* mtn_rd = max(16, rd * 3)
MtnRd(rd) == Max(16, rd * 3)

\* tier 2: terrain_needed
Tier2(c, rd) == {k \in Square(c, TerrainRd(rd)) : ~InSquare(k, c, rd)}

\* the keys the tier-3 scan looks at: not covered by tier 1 or 2
MtnScan(c, rd) ==
    {k \in Square(c, MtnRd(rd)) :
        ~(InSquare(k, c, rd) \/ InSquare(k, c, TerrainRd(rd)))}

\* every key an update() of the model can look at
Universe ==
    UNION {Square(CamChunk(p, CHUNK_SIZE), MtnRd(rd)) :
               p \in CamPositions, rd \in RenderDistances}
        \cup UNION {Square(<<0, 0>>, MtnRd(b + 4)) : b \in FogBases}

\* the (seed, key) pairs of the universe at which chunk_has_mountain holds,
\* evaluated once
MountainTable ==
    {<<p[1], p[2]>> : p \in {q \in Seeds \X Universe :
        chunk_has_mountain(q[2][1], q[2][2], CHUNK_SIZE, q[1])}}

\* a cache that is rebuilt from the keys of the scan at every call
CacheOfScanOnly(cache, scan, s) ==
    [k \in scan |->
        IF k \in DOMAIN cache THEN cache[k] ELSE <<s, k>> \in MountainTable]

\* the cache after the scan: mtn_cache[key] = chunk_has_mountain(...) for
\* every scanned key not yet cached
CacheAfter(cache, scan, s) ==
    [k \in (DOMAIN cache) \cup scan |->
        IF k \in DOMAIN cache THEN cache[k] ELSE <<s, k>> \in MountainTable]

\* a tier-1 budget of one chunk per call, whatever the render distance
MaxLoadOne(rd) == 1

\* max_load = 2 if rd <= 3 else 4
MaxLoad(rd) == IF rd <= 3 THEN 2 ELSE 4

\* terrain_max = 8
TERRAIN_MAX == 8

\* mtn_max = 8
MTN_MAX == 8

\* the keys of one row of Square(c, r) in iteration order
RowKeys(c, r, i, order) ==
    LET n  == (2 * r) + 1
        dx == IF order = "asc" THEN i - 1 - r ELSE r + 1 - i
    IN  [j \in 1..n |->
            <<c[1] + dx,
              c[2] + (IF order = "asc" THEN j - 1 - r ELSE r + 1 - j)>>]

RECURSIVE LoadLoopUnbudgeted(_, _, _, _, _, _, _)
\* the load loop without its  if count >= budget: break
LoadLoopUnbudgeted(want, have, budget, c, r, i, order) ==
    IF i > (2 * r) + 1 THEN <<>>
    ELSE SelectSeq(RowKeys(c, r, i, order),
                   LAMBDA k : k \in want /\ k \notin have)
         \o LoadLoopUnbudgeted(want, have, budget, c, r, i + 1, order)

RECURSIVE LoadLoop(_, _, _, _, _, _, _)
\* for key in want: if key not in self.chunks: create it; count it; stop
\* at the budget.  Returns the keys created, in order.  want lies in
\* Square(c, r); have is the domain of self.chunks; i is the row reached.
LoadLoop(want, have, budget, c, r, i, order) ==
    IF budget <= 0 \/ i > (2 * r) + 1 THEN <<>>
    ELSE LET miss == SelectSeq(RowKeys(c, r, i, order),
                               LAMBDA k : k \in want /\ k \notin have)
             take == SubSeq(miss, 1, Min(budget, Len(miss)))
         IN  take \o LoadLoop(want, have, budget - Len(take), c, r, i + 1, order)

SeqSet(q) == {q[i] : i \in 1..Len(q)}

\* a _spawn_special_tree that returns without spawning anything
SpawnNothing(s) == [spawned |-> FALSE, pos |-> <<>>, face_data |-> <<>>]

\* random.Random(self.seed + 999999) and the draws of _spawn_special_tree:
\* distance, angle, height, tree_angle; make_oak_tree returns 4 trunk quads
\* and 8 canopy triangles
SpawnSpecialTree(s) ==
    LET d == DrawN(RandomNew(U32(s + 999999)), 4)
    IN  [spawned |-> TRUE,
         pos |-> <<d[1], d[2]>>,
         face_data |-> <<[kind |-> "oak", at |-> <<s>>, draws |-> d,
                          faces |-> 12]>>]

NoSpecialTree == [spawned |-> FALSE, pos |-> <<>>, face_data |-> <<>>]

\* self._cam_pos = Vec3(0, 0, 0) in __init__: a vector of the world's own
OwnPosition == [object |-> "Vec3(0, 0, 0)"]

\* self._cam_pos = camera.position in update(): the very object the camera
\* moves in place, not a copy of it
CameraPosition == [object |-> "camera.position"]

\* an unloading pass that keeps tiers 1 and 2 only
UnloadedBeyondTerrain(c, cache) ==
    LET rd  == render_distance
        mtn == {k \in Square(c, MtnRd(rd)) :
                   /\ ~(InSquare(k, c, rd) \/ InSquare(k, c, TerrainRd(rd)))
                   /\ cache[k]}
        to_remove == {k \in DOMAIN chunks :
                         ~(InSquare(k, c, rd)
                           \/ InSquare(k, c, TerrainRd(rd)))}
    IN  [cam     |-> c,
         rd      |-> rd,
         cache   |-> cache,
         mtn     |-> mtn,
         removed |-> to_remove,
         created |-> <<>>,
         chunks  |-> [k \in (DOMAIN chunks) \ to_remove |-> chunks[k]]]

\* update() without its unload loop
UnloadedNothing(c, cache) ==
    LET rd == render_distance
    IN  [cam     |-> c,
         rd      |-> rd,
         cache   |-> cache,
         mtn     |-> {k \in Square(c, MtnRd(rd)) :
                        /\ ~(InSquare(k, c, rd) \/ InSquare(k, c, TerrainRd(rd)))
                        /\ cache[k]},
         removed |-> {},
         created |-> <<>>,
         chunks  |-> chunks]

\* update() up to and including the unload loop, for camera chunk c and the
\* mountain cache as the tier-3 scan leaves it: the values it has computed
\* and the chunks it keeps
Unloaded(c, cache) ==
    LET rd  == render_distance
        mtn == {k \in Square(c, MtnRd(rd)) :
                   /\ ~(InSquare(k, c, rd) \/ InSquare(k, c, TerrainRd(rd)))
                   /\ cache[k]}
        to_remove == {k \in DOMAIN chunks :
                         ~(InSquare(k, c, rd) \/ InSquare(k, c, TerrainRd(rd))
                           \/ k \in mtn)}
    IN  [cam     |-> c,
         rd      |-> rd,
         cache   |-> cache,
         mtn     |-> mtn,
         removed |-> to_remove,
         created |-> <<>>,
         chunks  |-> [k \in (DOMAIN chunks) \ to_remove |-> chunks[k]]]

\* a load loop whose chunks draw from a random state shared by the whole
\* world, advanced by every update() call
LoadedGlobalRng(w, new, tier) ==
    [w EXCEPT
        !.created = @ \o [i \in 1..Len(new) |-> <<new[i], tier>>],
        !.chunks  = [k \in (DOMAIN @) \cup SeqSet(new) |->
                        IF k \in DOMAIN @ THEN @[k]
                        ELSE [ForestChunk(k[1], k[2], CHUNK_SIZE, seed,
                                          tier # 1)
                              EXCEPT !.face_data =
                                  _generate(k[1], k[2], CHUNK_SIZE,
                                            seed + calls, tier # 1)]]]

\* a load loop whose chunks depend on how many chunks are loaded around them
LoadedByNeighbours(w, new, tier) ==
    [w EXCEPT
        !.created = @ \o [i \in 1..Len(new) |-> <<new[i], tier>>],
        !.chunks  = [k \in (DOMAIN @) \cup SeqSet(new) |->
                        IF k \in DOMAIN @ THEN @[k]
                        ELSE [ForestChunk(k[1], k[2], CHUNK_SIZE, seed,
                                          tier # 1)
                              EXCEPT !.face_data =
                                  _generate(k[1], k[2], CHUNK_SIZE,
                                            seed + Cardinality(DOMAIN w.chunks),
                                            tier # 1)]]]

\* one budgeted load loop over the keys `new` it creates: self.chunks[key] =
\* ForestChunk(cx, cz, self.chunk_size, self.seed, terrain_only=...)
Loaded(w, new, tier) ==
    [w EXCEPT
        !.created = @ \o [i \in 1..Len(new) |-> <<new[i], tier>>],
        !.chunks  = [k \in (DOMAIN @) \cup SeqSet(new) |->
                        IF k \in DOMAIN @ THEN @[k]
                        ELSE ForestChunk(k[1], k[2], CHUNK_SIZE, seed,
                                         tier # 1)]]

\* tier 1: for key in needed, max_load
LoadTier1(w) ==
    Loaded(w, LoadLoop(Tier1(w.cam, w.rd), DOMAIN w.chunks, MaxLoad(w.rd),
                       w.cam, w.rd, 1, scan_order), 1)

\* tier 2: for key in terrain_needed, terrain_max
LoadTier2(w) ==
    Loaded(w, LoadLoop(Tier2(w.cam, w.rd), DOMAIN w.chunks, TERRAIN_MAX,
                       w.cam, TerrainRd(w.rd), 1, scan_order), 2)

\* tier 3: for key in mtn_needed, mtn_max
LoadTier3(w) ==
    Loaded(w, LoadLoop(w.mtn, DOMAIN w.chunks, MTN_MAX,
                       w.cam, MtnRd(w.rd), 1, scan_order), 3)

\* what update() computes and the chunks it leaves, for camera chunk c
UpdateResult(c) ==
    LoadTier3(LoadTier2(LoadTier1(
        Unloaded(c, CacheAfter(mtn_cache, MtnScan(c, render_distance), seed)))))

\* the chunks ever built, after update() built those of u.created
Generated(u) ==
    LET keys == {<<u.created[i][1][1], u.created[i][1][2],
                   u.created[i][2] # 1>> : i \in 1..Len(u.created)}
        old(g) == IF g \in DOMAIN generated THEN generated[g]
                  ELSE [built |-> {}, times |-> 0]
    IN  [g \in (DOMAIN generated) \cup keys |->
            IF g \in keys
            THEN [built |-> old(g).built \cup {u.chunks[<<g[1], g[2]>>]},
                  times |-> old(g).times + 1]
            ELSE generated[g]]

\* the state update() leaves, given what it computed
Commit(u) ==
    /\ special_tree' = IF special_tree.spawned THEN special_tree
                       ELSE SpawnSpecialTree(seed)
    /\ world_cam_pos' = CameraPosition
    /\ world_cam_forward' = cam.forward
    /\ mtn_cache' = u.cache
    /\ last_mtn_chunks' = Cardinality(u.mtn)
    /\ chunks' = u.chunks
    /\ last_update' = [cam |-> u.cam, rd |-> u.rd, mtn |-> u.mtn,
                       removed |-> u.removed, created |-> u.created]
    /\ stable' = IF calls > 0 /\ last_update.cam = u.cam
                    /\ last_update.rd = u.rd
                 THEN Min(stable + 1, IF mode = "settle" THEN SettleCap
                                      ELSE StableCap)
                 ELSE 1
    /\ evicted' = [k \in (DOMAIN evicted) \cup u.removed |->
                     IF k \in u.removed THEN chunks[k] ELSE evicted[k]]
    /\ generated' = Generated(u)
    /\ calls' = calls + 1

\* the behaviour has a call of update() left
UpdateDue ==
    \/ mode = "free" /\ calls < MaxCalls
    \/ mode = "rest" /\ stable < StableCap
    \/ mode = "settle" /\ stable < SettleCap

\* what every call of update() does to the count of the calls
UpdateCalled == UpdateDue /\ calls' = calls + 1

\* ForestWorld.update(camera)
Update ==
    /\ UpdateDue
    /\ Commit(UpdateResult(CamChunk(camera, CHUNK_SIZE)))
    /\ UNCHANGED <<seed, render_distance, camera, scan_order, mode,
                   render_vars, camera_vars, model_vars, last_face_count,
                   world_faces, app_vars>>

\* the environment may still move the camera or change the render distance
MayMove ==
    \/ mode = "free"
    \/ mode = "rest" /\ calls <= MaxPre
    \/ mode = "settle" /\ calls = 1

\* the camera is moved between two update() calls (Camera.move_forward,
\* move_right, move_up over any number of frames)
MoveCamera(p) ==
    /\ MayMove
    /\ p # camera
    /\ camera' = p
    /\ UNCHANGED <<world_vars, ghost_vars, scan_order, mode, render_vars,
                   object_vars>>

\* the render distance may still change: at any time when the camera moves
\* freely, before the first update() when it comes to rest
MaySetRd == mode = "free" \/ calls = 0

\* SpinningModel.update: self.world.render_distance = effective_rd
SetRenderDistance(r) ==
    /\ MaySetRd
    /\ r # render_distance
    /\ render_distance' = r
    /\ UNCHANGED <<seed, chunks, mtn_cache, last_mtn_chunks, world_cam_pos,
                   special_tree, camera, ghost_vars, scan_order, mode,
                   render_vars, object_vars>>

----------------------------------------------------------------------------
(* Renderer: arithmetic *)

\* Lengths are integers in thousandths of a world unit; brightness, fog and
\* attenuation are in thousandths of one.  Where the code divides floats the
\* model divides integers and drops the fraction.

\* int(a / b) for b > 0: Python truncates toward zero
Trunc(a, b) == IF a >= 0 THEN a \div b ELSE 0 - ((0 - a) \div b)

\* round(a / b) for b > 0: Python rounds a tie to the even neighbour
RoundHalfEven(a, b) ==
    LET q == a \div b
        r == a % b
    IN IF 2 * r < b THEN q
       ELSE IF 2 * r > b THEN q + 1
       ELSE IF q % 2 = 0 THEN q ELSE q + 1

RECURSIVE IsqrtStep(_, _, _)
IsqrtStep(n, lo, hi) ==
    IF lo >= hi THEN lo
    ELSE LET mid == (lo + hi + 1) \div 2
         IN IF mid * mid <= n THEN IsqrtStep(n, mid, hi)
            ELSE IsqrtStep(n, lo, mid - 1)

\* math.sqrt, rounded down
Isqrt(n) == IsqrtStep(n, 0, 46340)

Dot(a, b) == (a[1] * b[1]) + (a[2] * b[2]) + (a[3] * b[3])

\* the smallest and the largest of a non-empty set of integers
SetMin(S) == CHOOSE a \in S : \A b \in S : a <= b

SetMax(S) == CHOOSE a \in S : \A b \in S : a >= b

\* the elements of a sequence, as a set
Range(s) == {s[i] : i \in DOMAIN s}

(* Renderer: class attributes and what __init__ and set_fov set *)

\* Renderer.SHADING
SHADING == <<".", ":", "-", "=", "+", "*", "%", "@">>

\* num_shades = len(shading) - 1
num_shades == Len(SHADING) - 1

\* Renderer.CHAR_ASPECT = 2.0
CHAR_ASPECT == 2

\* Renderer.near_plane = 0.01
near_plane == 10

\* Renderer.ambient = 0.12
AMBIENT == 120

\* Renderer.light_pos = Vec3(3.0, 4.0, 3.0)
LIGHT_POS == <<3000, 4000, 3000>>

\* z_bias = 0.005 of the edges of filled faces
Z_BIAS == 5

\* the initial z-buffer value -1e30: farther than every depth of the model
Z_FAR == 0 - 1000000000

\* Renderer(width, height)
Viewport == [width |-> 4, height |-> 3]

\* Renderer.scale of a renderer built without a model
SCALE == 1

\* set_fov(90.0): focal = (width * 0.5) / tan(45 degrees)
focal == Viewport.width \div 2

\* the value None of a projection or of a wireframe marker
None == <<>>

\* the marker of a terrain wireframe face: the glyph '.' at full colour
TERRAIN_WIRE == <<".", 20>>

\* Renderer.EDGE_STR: the glyph '#' at full colour
EDGE_STR == <<"#", 20>>

\* PATH_EDGE, the tag of the path markers: the glyph '#' in yellow, a colour
\* no fog level gives
PATH_EDGE == <<"#", 255>>

Pixels == (0..(Viewport.width - 1)) \X (0..(Viewport.height - 1))

(* Camera at yaw = 0, pitch = 0 *)

right == <<1, 0, 0>>

up == <<0, 1, 0>>

forward == <<0, 0, -1>>

\* camera.position in thousandths
CamMilli(c) == <<c[1] * 1000, c[2] * 1000, c[3] * 1000>>

\* the inlined Camera.view_transform of _render_perspective
view_transform(v, cpos) ==
    LET d == <<v[1] - cpos[1], v[2] - cpos[2], v[3] - cpos[3]>>
    IN <<Dot(right, d), Dot(up, d), Dot(forward, d)>>

\* the inlined Camera.transform_direction of _render_perspective
transform_direction(n) == <<Dot(right, n), Dot(up, n), Dot(forward, n)>>

\* the world-space point of a camera-space point: the inverse of
\* view_transform for the orthonormal basis above
FromCamera(cv, cpos) ==
    <<cpos[1] + (cv[1] * right[1]) + (cv[2] * up[1]) + (cv[3] * forward[1]),
      cpos[2] + (cv[1] * right[2]) + (cv[2] * up[2]) + (cv[3] * forward[2]),
      cpos[3] + (cv[1] * right[3]) + (cv[2] * up[3]) + (cv[3] * forward[3])>>

----------------------------------------------------------------------------
(* Renderer: near-plane clipping and projection *)

\* the point where the edge cur -> nxt meets the plane cam_z = near
Intersection(cur, nxt, near) ==
    <<cur[1] + (((near - cur[3]) * (nxt[1] - cur[1])) \div (nxt[3] - cur[3])),
      cur[2] + (((near - cur[3]) * (nxt[2] - cur[2])) \div (nxt[3] - cur[3])),
      near>>

\* a clipper that forgets the intersection of an edge entering the view
ClipEdgeExitOnly(cur, nxt, near) ==
    IF cur[3] > near
    THEN IF ~(nxt[3] > near) THEN <<cur, Intersection(cur, nxt, near)>>
         ELSE <<cur>>
    ELSE <<>>

\* one iteration of the loop of _clip_polygon_near: what it appends to out
ClipEdge(cur, nxt, near) ==
    LET cur_in == cur[3] > near
        nxt_in == nxt[3] > near
    IN IF cur_in
       THEN IF ~nxt_in THEN <<cur, Intersection(cur, nxt, near)>>
            ELSE <<cur>>
       ELSE IF nxt_in THEN <<Intersection(cur, nxt, near)>>
            ELSE <<>>

RECURSIVE ClipFrom(_, _, _)
ClipFrom(cam_vs, i, near) ==
    IF i > Len(cam_vs) THEN <<>>
    ELSE ClipEdge(cam_vs[i], cam_vs[(i % Len(cam_vs)) + 1], near)
             \o ClipFrom(cam_vs, i + 1, near)

\* Renderer._clip_polygon_near
_clip_polygon_near(cam_vs, near) == ClipFrom(cam_vs, 1, near)

\* Renderer._project_vertex_persp
_project_vertex_persp(cam_v) ==
    LET cx == cam_v[1]
        cy == cam_v[2]
        cz == cam_v[3]
        LIMIT == Max(Viewport.width, Viewport.height) * 10
    IN IF cz <= near_plane THEN None
       ELSE LET x == RoundHalfEven((focal * cx)
                                     + ((Viewport.width \div 2) * cz), cz)
                y == RoundHalfEven((0 - (focal * cy))
                                     + ((Viewport.height \div 2)
                                          * (cz * CHAR_ASPECT)),
                                   cz * CHAR_ASPECT)
            IN <<Max(0 - LIMIT, Min(LIMIT, x)),
                 Max(0 - LIMIT, Min(LIMIT, y))>>

\* Renderer._project_vertex_ortho
_project_vertex_ortho(v) ==
    LET x == RoundHalfEven((v[1] * SCALE)
                             + ((Viewport.width \div 2) * 1000), 1000)
        y == RoundHalfEven((0 - (v[2] * SCALE))
                             + ((Viewport.height \div 2)
                                  * (1000 * CHAR_ASPECT)),
                           1000 * CHAR_ASPECT)
        margin == Max(Viewport.width, Viewport.height)
    IN IF /\ 0 - margin <= x
          /\ x < Viewport.width + margin
          /\ 0 - margin <= y
          /\ y < Viewport.height + margin
       THEN <<x, y>>
       ELSE None

\* all(projected)
AllProjected(projected) == \A i \in DOMAIN projected : projected[i] # None

\* one iteration of the gather loop of _render_perspective: the camera-space
\* vertices, the clipped polygon, its projection, and whether the face is
\* appended to visible
GatherFace(item, cpos) ==
    LET cam_vs == [i \in DOMAIN item.vs |-> view_transform(item.vs[i], cpos)]
        any_in_front == \E i \in DOMAIN cam_vs : cam_vs[i][3] > near_plane
        clipped == IF any_in_front
                   THEN _clip_polygon_near(cam_vs, near_plane) ELSE <<>>
        enough == any_in_front /\ Len(clipped) >= 3
        projected == IF enough
                     THEN [i \in DOMAIN clipped |->
                              _project_vertex_persp(clipped[i])]
                     ELSE <<>>
    IN [cam_vs |-> cam_vs, any_in_front |-> any_in_front,
        clipped |-> clipped, projected |-> projected,
        kept |-> enough /\ AllProjected(projected),
        entry |-> [vs |-> clipped, normal |-> transform_direction(item.normal),
                   wireframe |-> item.wireframe, world_y |-> item.center[2],
                   projected |-> projected]]

\* the visible list _render_perspective gathers from the model's faces
GatherPersp(faces, cpos) ==
    LET g == SelectSeq([i \in DOMAIN faces |-> GatherFace(faces[i], cpos)],
                       LAMBDA f : f.kept)
    IN [i \in DOMAIN g |-> g[i].entry]

\* the visible list _render_ortho gathers: the faces turned to the viewer
GatherOrtho(faces) ==
    LET g == SelectSeq(faces, LAMBDA f : f.normal[3] > 0)
    IN [i \in DOMAIN g |->
           [vs |-> g[i].vs, normal |-> g[i].normal, wireframe |-> None,
            world_y |-> g[i].center[2],
            projected |-> [j \in DOMAIN g[i].vs |->
                              _project_vertex_ortho(g[i].vs[j])]]]

----------------------------------------------------------------------------
(* Renderer: lighting and the two fill routines *)

\* brightness = ambient + (1 - ambient) * diffuse * atten for the normal n
\* and the vector dl from the surface point to the light
Brightness(n, dl) ==
    LET d2 == Dot(dl, dl)
        dist == Isqrt(d2)
    IN IF dist > 0
       THEN LET diffuse == Max(0, Dot(n, dl) \div dist)
                atten == 1000000000 \div (1000000 + (d2 \div 50))
            IN AMBIENT + (((1000 - AMBIENT) * ((diffuse * atten) \div 1000))
                             \div 1000)
       ELSE 1000

\* a shade index for a ramp of 9 characters
ShadeIndexOfNine(b) == (b * 8) \div 1000

\* idx = int(brightness * num_shades)
ShadeIndex(b) == (b * num_shades) \div 1000

\* shading[max(0, min(num_shades, idx))], as a cell of the buffer: a cell is
\* <<glyph>>, or <<glyph, colour level>> for the coloured edge strings
Shade(idx) == <<SHADING[Max(0, Min(num_shades, idx)) + 1]>>

\* the pixel (x, y) of a face in _draw_face_lit_ortho: its depth wz and the
\* index of its shade
OrthoFragment(item, x, y) ==
    LET n == item.normal
        v0 == item.vs[1]
        wx == ((x - (Viewport.width \div 2)) * 1000) \div SCALE
        wy == (0 - ((y - (Viewport.height \div 2)) * (CHAR_ASPECT * 1000)))
                  \div SCALE
        wz == IF n[3] # 0
              THEN v0[3] - (((n[1] * (wx - v0[1])) + (n[2] * (wy - v0[2])))
                               \div n[3])
              ELSE v0[3]
        dl == <<LIGHT_POS[1] - wx, LIGHT_POS[2] - wy, LIGHT_POS[3] - wz>>
    IN [ok |-> TRUE, z |-> wz, brightness |-> Brightness(n, dl),
        idx |-> ShadeIndex(Brightness(n, dl))]

\* Renderer._point_in_polygon
_point_in_polygon(px, py, projected) ==
    LET n == Len(projected)
        d(i) == LET a == projected[i]
                    b == projected[(i % n) + 1]
                IN ((px - b[1]) * (a[2] - b[2]))
                     - ((a[1] - b[1]) * (py - b[2]))
    IN ~((\E i \in 1..n : d(i) > 0) /\ (\E i \in 1..n : d(i) < 0))

\* the pixels _draw_face_lit_ortho visits: the bounding box clamped to the
\* viewport, tested against the polygon
OrthoCovers(item, x, y) ==
    LET xs == {item.projected[i][1] : i \in DOMAIN item.projected}
        ys == {item.projected[i][2] : i \in DOMAIN item.projected}
    IN /\ Max(0, SetMin(xs)) <= x
       /\ x <= Min(Viewport.width - 1, SetMax(xs))
       /\ Max(0, SetMin(ys)) <= y
       /\ y <= Min(Viewport.height - 1, SetMax(ys))
       /\ _point_in_polygon(x, y, item.projected)

\* the pixel (x, y) of a face in _draw_face_lit_persp: whether it has a
\* depth in front of the near plane, its z-buffer depth -cam_z and the index
\* of its shade after fog
PerspFragment(item, x, y, fog_dist, cpos) ==
    LET cn == item.normal
        cv0 == item.vs[1]
        d == Dot(cn, cv0)
        light_cam == view_transform(LIGHT_POS, cpos)
        rx == ((x - (Viewport.width \div 2)) * 1000) \div focal
        ry == (0 - ((y - (Viewport.height \div 2)) * (CHAR_ASPECT * 1000)))
                  \div focal
        denom == (((cn[1] * rx) + (cn[2] * ry)) \div 1000) + cn[3]
        cam_z == IF denom # 0 THEN d \div denom ELSE 0
        cam_x == (rx * cam_z) \div 1000
        cam_y == (ry * cam_z) \div 1000
        dl == <<light_cam[1] - cam_x, light_cam[2] - cam_y,
                light_cam[3] - cam_z>>
        lit == Brightness(cn, dl)
        fog == Min(1000, (cam_z * 1000) \div fog_dist)
        brightness == IF fog_dist > 0
                      THEN (lit * ((1000000 - (fog * fog)) \div 1000))
                               \div 1000
                      ELSE lit
    IN [ok |-> denom # 0 /\ cam_z > near_plane, z |-> 0 - cam_z,
        denom |-> denom,
        brightness |-> brightness, idx |-> ShadeIndex(brightness)]

\* a is left of b, for fractions <<numerator, denominator>> with positive
\* denominators
FracLess(a, b) == (a[1] * b[2]) < (b[1] * a[2])

\* where the edges and vertices of the polygon meet the scanline y
ScanlineHits(projected, y) ==
    LET n == Len(projected)
        lo(i) == IF projected[i][2] < projected[(i % n) + 1][2]
                 THEN projected[i] ELSE projected[(i % n) + 1]
        hi(i) == IF projected[i][2] < projected[(i % n) + 1][2]
                 THEN projected[(i % n) + 1] ELSE projected[i]
    IN {<<(lo(i)[1] * (hi(i)[2] - lo(i)[2]))
             + ((y - lo(i)[2]) * (hi(i)[1] - lo(i)[1])),
          hi(i)[2] - lo(i)[2]>> :
           i \in {j \in 1..n : /\ projected[j][2] # projected[(j % n) + 1][2]
                               /\ lo(j)[2] <= y
                               /\ y <= hi(j)[2]}}
       \cup {<<projected[i][1], 1>> : i \in {j \in 1..n : projected[j][2] = y}}

\* the pixels _draw_face_lit_persp visits: on each scanline of the viewport
\* the span from the leftmost to the rightmost hit
PerspCovers(item, x, y) ==
    LET ys == {item.projected[i][2] : i \in DOMAIN item.projected}
        hits == ScanlineHits(item.projected, y)
        x_left == CHOOSE a \in hits : \A b \in hits : ~FracLess(b, a)
        x_right == CHOOSE a \in hits : \A b \in hits : ~FracLess(a, b)
        xl == IF x_left[1] >= 0 THEN Trunc(x_left[1], x_left[2]) ELSE 0
        xr == Min(Viewport.width - 1, Trunc(x_right[1], x_right[2]))
    IN /\ Max(0, SetMin(ys)) <= y
       /\ y <= Min(Viewport.height - 1, SetMax(ys))
       /\ hits # {}
       /\ xl <= x
       /\ x <= xr

\* Renderer._draw_face_lit_ortho on the frame fb = [chars, depth]
_draw_face_lit_ortho(fb, item) ==
    LET frag(p) == OrthoFragment(item, p[1], p[2])
        drawn(p) == /\ OrthoCovers(item, p[1], p[2])
                    /\ ~(frag(p).z < fb.depth[p])
    IN [chars |-> [p \in Pixels |->
                      IF drawn(p) THEN Shade(frag(p).idx) ELSE fb.chars[p]],
        depth |-> [p \in Pixels |->
                      IF drawn(p) THEN frag(p).z ELSE fb.depth[p]]]

\* Renderer._draw_face_lit_persp on the frame fb = [chars, depth]: the depth
\* is stored before the shade is computed, the character only when the
\* shade index is positive or there is no fog
_draw_face_lit_persp(fb, item, fog_dist, cpos) ==
    LET frag(p) == PerspFragment(item, p[1], p[2], fog_dist, cpos)
        passed(p) == /\ PerspCovers(item, p[1], p[2])
                     /\ frag(p).ok
                     /\ ~(frag(p).z < fb.depth[p])
        shaded(p) == passed(p) /\ ~(frag(p).idx <= 0 /\ fog_dist > 0)
    IN [chars |-> [p \in Pixels |->
                      IF shaded(p) THEN Shade(frag(p).idx) ELSE fb.chars[p]],
        depth |-> [p \in Pixels |->
                      IF passed(p) THEN frag(p).z ELSE fb.depth[p]]]

----------------------------------------------------------------------------
(* Renderer: edges *)

\* Renderer._draw_line from the point (x, y), k steps into the line ln
RECURSIVE LineWalk(_, _, _, _, _, _)
LineWalk(fb, ln, x, y, err, k) ==
    LET z == ln.z + (IF ln.total > 0 THEN (k * ln.dz) \div ln.total ELSE 0)
        hit == /\ <<x, y>> \in Pixels
               /\ z >= fb.depth[<<x, y>>]
        fb1 == IF hit
               THEN [chars |-> [fb.chars EXCEPT ![<<x, y>>] = ln.char],
                     depth |-> [fb.depth EXCEPT ![<<x, y>>] = z]]
               ELSE fb
        e2 == 2 * err
        stepx == e2 > 0 - ln.dy
        stepy == e2 < ln.dx
    IN IF x = ln.x2 /\ y = ln.y2 THEN fb1
       ELSE LineWalk(fb1, ln,
                     IF stepx THEN x + ln.sx ELSE x,
                     IF stepy THEN y + ln.sy ELSE y,
                     (err - (IF stepx THEN ln.dy ELSE 0))
                         + (IF stepy THEN ln.dx ELSE 0),
                     k + 1)

\* Renderer._draw_line
_draw_line(fb, p1, p2, z1, z2, char, z_bias) ==
    LET dx == Abs(p2[1] - p1[1])
        dy == Abs(p2[2] - p1[2])
    IN LineWalk(fb,
                [x2 |-> p2[1], y2 |-> p2[2], dx |-> dx, dy |-> dy,
                 sx |-> IF p1[1] < p2[1] THEN 1 ELSE -1,
                 sy |-> IF p1[2] < p2[2] THEN 1 ELSE -1,
                 total |-> Max(dx, dy), z |-> z1 + z_bias, dz |-> z2 - z1,
                 char |-> char],
                p1[1], p1[2], dx - dy, 0)

\* the edges of one face, drawn in order from edge i on; zs are the depths
\* handed to _draw_line
RECURSIVE DrawEdgesFrom(_, _, _, _, _, _)
DrawEdgesFrom(fb, projected, zs, char, z_bias, i) ==
    IF i > Len(projected) THEN fb
    ELSE DrawEdgesFrom(
             _draw_line(fb, projected[i],
                        projected[(i % Len(projected)) + 1],
                        zs[i], zs[(i % Len(projected)) + 1], char, z_bias),
             projected, zs, char, z_bias, i + 1)

RECURSIVE SumDepth(_, _)
SumDepth(vs, i) == IF i > Len(vs) THEN 0 ELSE vs[i][3] + SumDepth(vs, i + 1)

\* the fog fade of the edges of a face of _render_perspective, in
\* thousandths
FogFade(item, fog_dist) ==
    IF fog_dist > 0
    THEN LET n_cv == Len(item.vs)
             tot_z == SumDepth(item.vs, 1)
             fog == Min(1000, ((tot_z \div n_cv) * 1000) \div fog_dist)
             alt == Min(1000, ((item.world_y - 4000) * 1000) \div 15000)
             fog_eff == IF item.wireframe # None /\ item.world_y > 4000
                        THEN (fog * (1000 - ((alt * 920) \div 1000)))
                                 \div 1000
                        ELSE fog
         IN Max(0, 1000 - ((fog_eff * fog_eff) \div 1000))
    ELSE 1000

\* the string the edges of a face are drawn with: its glyph and its colour
\* level q = int(fog_fade * 20)
EdgeStr(item, fog_fade) ==
    IF item.wireframe # None /\ item.wireframe # TERRAIN_WIRE
    THEN item.wireframe
    ELSE <<IF item.wireframe # None THEN "." ELSE "#",
           (fog_fade * 20) \div 1000>>

----------------------------------------------------------------------------
(* Renderer: one render call, face by face *)

\* where the call goes after the fill of face i of n (i = 0: after the
\* gather loop), with every fill and its edges interleaved
AfterFillInterleaved(i, n) ==
    IF n = 0 THEN [phase |-> "done", i |-> 0]
    ELSE IF i = 0 THEN [phase |-> "fill", i |-> 1]
    ELSE [phase |-> "edge", i |-> i]

\* where the call goes after the fill of face i of n (i = 0: after the
\* gather loop): the fill loop runs to its end before the edge loop starts
AfterFill(i, n) ==
    IF i < n THEN [phase |-> "fill", i |-> i + 1]
    ELSE IF n > 0 THEN [phase |-> "edge", i |-> 1]
    ELSE [phase |-> "done", i |-> 0]

\* where the call goes after the edges of face i of n
AfterEdge(i, n) ==
    IF i < n THEN [phase |-> "edge", i |-> i + 1]
    ELSE [phase |-> "done", i |-> 0]

Persp == renderer.path = "persp"

\* the frame the draw loops work on
Frame == [chars |-> buffer, depth |-> zbuffer]

\* the fill loop fills face i of visible
Fills(i) ==
    IF Persp THEN visible[i].wireframe = None
    ELSE AllProjected(visible[i].projected)

\* an edge loop that lets draw_edges gate the wireframe faces too
DrawsEdgesGated(i) ==
    IF Persp
    THEN /\ renderer.draw_edges
         /\ ~(renderer.fog_distance > 0
                /\ FogFade(visible[i], renderer.fog_distance) < 30)
    ELSE AllProjected(visible[i].projected)

\* the edge loop draws the edges of face i of visible
DrawsEdges(i) ==
    IF Persp
    THEN /\ ~(visible[i].wireframe = None /\ ~renderer.draw_edges)
         /\ ~(renderer.fog_distance > 0
                /\ FogFade(visible[i], renderer.fog_distance) < 30)
    ELSE AllProjected(visible[i].projected)

\* the gather loop of _render_perspective or of _render_ortho, and the fresh
\* buffer and zbuffer
Gather ==
    /\ rpc.phase = "gather"
    /\ visible' = IF Persp THEN GatherPersp(model_faces, CamMilli(camera))
                  ELSE GatherOrtho(model_faces)
    /\ gathered' = IF Persp
                   THEN [i \in DOMAIN model_faces |->
                            GatherFace(model_faces[i], CamMilli(camera))]
                   ELSE <<>>
    /\ buffer' = [p \in Pixels |-> <<" ">>]
    /\ zbuffer' = [p \in Pixels |-> Z_FAR]
    /\ rpc' = AfterFill(0, Len(visible'))
    /\ UNCHANGED <<world_vars, ghost_vars, object_vars, camera, scan_order,
                   mode,
                   model_faces, renderer, rlog, clip_io>>

\* one iteration of the fill loop
FillFace ==
    /\ rpc.phase = "fill"
    /\ LET i == rpc.i
           fb == IF ~Fills(i) THEN Frame
                 ELSE IF Persp
                 THEN _draw_face_lit_persp(Frame, visible[i],
                                           renderer.fog_distance,
                                           CamMilli(camera))
                 ELSE _draw_face_lit_ortho(Frame, visible[i])
       IN /\ buffer' = fb.chars
          /\ zbuffer' = fb.depth
          /\ rlog' = IF Fills(i) THEN Append(rlog, <<"fill", i>>) ELSE rlog
          /\ rpc' = AfterFill(i, Len(visible))
    /\ UNCHANGED <<world_vars, ghost_vars, object_vars, camera, scan_order,
                   mode,
                   model_faces, renderer, visible, gathered, clip_io>>

\* one iteration of the edge loop
EdgeFace ==
    /\ rpc.phase = "edge"
    /\ LET i == rpc.i
           item == visible[i]
           fb == IF ~DrawsEdges(i) THEN Frame
                 ELSE IF Persp
                 THEN DrawEdgesFrom(
                          Frame, item.projected,
                          [j \in DOMAIN item.vs |-> 0 - item.vs[j][3]],
                          EdgeStr(item,
                                  FogFade(item, renderer.fog_distance)),
                          IF item.wireframe # None THEN 0 ELSE Z_BIAS, 1)
                 ELSE DrawEdgesFrom(
                          Frame, item.projected,
                          [j \in DOMAIN item.vs |-> item.vs[j][3]],
                          EDGE_STR, Z_BIAS, 1)
       IN /\ buffer' = fb.chars
          /\ zbuffer' = fb.depth
          /\ rlog' = IF DrawsEdges(i) THEN Append(rlog, <<"edge", i>>)
                     ELSE rlog
          /\ rpc' = AfterEdge(i, Len(visible))
    /\ UNCHANGED <<world_vars, ghost_vars, object_vars, camera, scan_order,
                   mode,
                   model_faces, renderer, visible, gathered, clip_io>>

\* a call of Renderer._clip_polygon_near(cam_vs, self.near_plane)
ClipCall ==
    /\ ~clip_io.done
    /\ clip_io' = [clip_io EXCEPT
                      !.out = _clip_polygon_near(clip_io.cam_vs, near_plane),
                      !.done = TRUE]
    /\ UNCHANGED <<world_vars, ghost_vars, object_vars, camera, scan_order,
                   mode,
                   model_faces, renderer, visible, gathered, buffer, zbuffer,
                   rpc, rlog>>

(* Renderer: the scenes of the model *)

\* a face of get_face_data(): a quad parallel to the image plane
Quad(x0, y0, x1, y1, z, nz, wire) ==
    [vs |-> <<<<x0, y0, z>>, <<x1, y0, z>>, <<x1, y1, z>>, <<x0, y1, z>>>>,
     center |-> <<(x0 + x1) \div 2, (y0 + y1) \div 2, z>>,
     normal |-> <<0, 0, nz>>, wireframe |-> wire]

\* a normalize that answers a vector of no length with the up vector
NormalizeDefaultUp(v) ==
    LET l == Isqrt(Dot(v, v))
    IN IF l > 0
       THEN <<(v[1] * 1000) \div l, (v[2] * 1000) \div l, (v[3] * 1000) \div l>>
       ELSE <<0, 0, 1000>>

\* Vec3.normalize of a vector whose length is below 46 units
Normalize(v) ==
    LET l == Isqrt(Dot(v, v))
    IN IF l > 0
       THEN <<(v[1] * 1000) \div l, (v[2] * 1000) \div l, (v[3] * 1000) \div l>>
       ELSE <<0, 0, 0>>

\* a face normal taken the other way round: e1 x e2, normalized
FaceNormalInward(vs) ==
    LET e1 == <<vs[2][1] - vs[1][1], vs[2][2] - vs[1][2], vs[2][3] - vs[1][3]>>
        e2 == <<vs[Len(vs)][1] - vs[1][1], vs[Len(vs)][2] - vs[1][2],
                vs[Len(vs)][3] - vs[1][3]>>
    IN Normalize(<<((e1[2] * e2[3]) - (e1[3] * e2[2])) \div 1000,
                   ((e1[3] * e2[1]) - (e1[1] * e2[3])) \div 1000,
                   ((e1[1] * e2[2]) - (e1[2] * e2[1])) \div 1000>>)

\* the normal of _make_face and of Model.get_face_data: e2 x e1 for the
\* first edge e1 and the last edge e2 from vs[0], normalized
FaceNormal(vs) ==
    LET e1 == <<vs[2][1] - vs[1][1], vs[2][2] - vs[1][2], vs[2][3] - vs[1][3]>>
        e2 == <<vs[Len(vs)][1] - vs[1][1], vs[Len(vs)][2] - vs[1][2],
                vs[Len(vs)][3] - vs[1][3]>>
    IN Normalize(<<((e2[2] * e1[3]) - (e2[3] * e1[2])) \div 1000,
                   ((e2[3] * e1[1]) - (e2[1] * e1[3])) \div 1000,
                   ((e2[1] * e1[2]) - (e2[2] * e1[1])) \div 1000>>)

RECURSIVE SumCoord(_, _, _)
SumCoord(vs, c, i) ==
    IF i > Len(vs) THEN 0 ELSE vs[i][c] + SumCoord(vs, c, i + 1)

\* the centroid of _make_face and of Model.get_face_data
Centroid(vs) ==
    <<SumCoord(vs, 1, 1) \div Len(vs), SumCoord(vs, 2, 1) \div Len(vs),
      SumCoord(vs, 3, 1) \div Len(vs)>>

\* _make_face(verts)
_make_face(verts) ==
    [vs |-> verts, center |-> Centroid(verts), normal |-> FaceNormal(verts),
     wireframe |-> None]

\* a triangle of no area made by _make_face: three points on a line in
\* front of the camera
DegenerateFace ==
    _make_face(<<<<-1000, -2000, -2000>>, <<0, 0, -2000>>,
                 <<1000, 2000, -2000>>>>)

\* a near quad and a far quad that covers it on the screen, each turned to
\* the light or away from it, filled or terrain wireframe; a distant quad at
\* the fog distance, filled, terrain wireframe or path marker; a near path
\* marker; and a face of no area
RenderFaces ==
    {Quad(-1000, -2000, 1000, 2000, -2000, nz, wire) :
         nz \in {1000, -1000}, wire \in {None, TERRAIN_WIRE}}
    \cup {Quad(-6000, -6000, 3000, 6000, -6000, nz, wire) :
              nz \in {1000, -1000}, wire \in {None, TERRAIN_WIRE}}
    \cup {Quad(-12000, -12000, 6000, 12000, -12000, 1000, wire) :
              wire \in {None, TERRAIN_WIRE, PATH_EDGE}}
    \cup {Quad(-1000, -2000, 1000, 2000, -2000, 1000, PATH_EDGE),
          DegenerateFace}

\* Renderer.fog_distance: 0.0, or 12.0 * render distance
FogDistances == {0, 12000}

\* camera positions of the render calls: the origin and the default
\* Vec3(0.0, 0.0, 5.0)
RenderCamPositions == {<<0, 0, 0>>, <<0, 0, 5>>}

\* depths of the vertices handed to the clipper: behind the camera, on the
\* near plane, and two in front
ClipDepths == {-500, near_plane, 500, 2000}

\* camera-space triangles and quads in the plane cam_y = -2, one depth per
\* vertex
ClipPolygons ==
    {<<<<-1000, -2000, a>>, <<1000, -2000, b>>, <<0, -2000, c>>>> :
         a \in ClipDepths, b \in ClipDepths, c \in ClipDepths}
    \cup {<<<<-1000, -2000, q[1]>>, <<1000, -2000, q[2]>>,
            <<1000, -2000, q[3]>>, <<-1000, -2000, q[4]>>>> :
              q \in ClipDepths \X ClipDepths \X ClipDepths \X ClipDepths}

\* the face of get_face_data() that the camera at cpos sees as cam_vs: a
\* piece of level ground, its normal pointing up
GroundFace(cam_vs, cpos) ==
    [vs |-> [i \in DOMAIN cam_vs |-> FromCamera(cam_vs[i], cpos)],
     center |-> FromCamera(<<0, -2000, 0>>, cpos),
     normal |-> <<0, 1000, 0>>, wireframe |-> None]

----------------------------------------------------------------------------
(* Camera *)

\* Angles are integers in thousandths of a radian; sines, cosines and vector
\* components are in thousandths.

\* pi and pi / 2 in thousandths of a radian
PI_MILLI == 3142

HALF_PI_MILLI == 1571

\* the angle x brought into -pi/2 .. pi/2 with the same sine
FoldAngle(x) ==
    LET r == ((x + PI_MILLI) % (2 * PI_MILLI)) - PI_MILLI
    IN IF r > HALF_PI_MILLI THEN PI_MILLI - r
       ELSE IF r < 0 - HALF_PI_MILLI THEN (0 - PI_MILLI) - r
       ELSE r

\* the sum of the series r - r^3/3! + r^5/5! - ... from the term t of order
\* 2k - 1 on, in hundred-thousandths
RECURSIVE SinSeries(_, _, _)
SinSeries(r, t, k) ==
    IF t = 0 \/ k > 6 THEN 0
    ELSE t + SinSeries(r,
                       0 - ((t * ((r * r) \div 1000))
                                \div (1000 * ((2 * k) * ((2 * k) + 1)))),
                       k + 1)

\* math.sin
Sin(x) == (SinSeries(FoldAngle(x), FoldAngle(x) * 100, 1) + 50) \div 100

\* math.cos
Cos(x) == Sin(x + HALF_PI_MILLI)

\* Camera._update_vectors with the up vector kept level
_update_vectors_level(yaw, pitch) ==
    LET cy == Cos(yaw)
        sy == Sin(yaw)
        cp == Cos(pitch)
        sp == Sin(pitch)
    IN [forward |-> <<(sy * cp) \div 1000, sp, (0 - (cy * cp)) \div 1000>>,
        right |-> <<cy, 0, sy>>,
        up |-> <<0, 1000, 0>>]

\* Camera._update_vectors: forward, right and up for a yaw and a pitch
_update_vectors(yaw, pitch) ==
    LET cy == Cos(yaw)
        sy == Sin(yaw)
        cp == Cos(pitch)
        sp == Sin(pitch)
    IN [forward |-> <<(sy * cp) \div 1000, sp, (0 - (cy * cp)) \div 1000>>,
        right |-> <<cy, 0, sy>>,
        up |-> <<(0 - (sy * sp)) \div 1000, cp, (cy * sp) \div 1000>>]

\* Camera(position, yaw, pitch)
NewCamera(position, yaw, pitch) ==
    [position |-> position, yaw |-> yaw, pitch |-> pitch,
     right |-> _update_vectors(yaw, pitch).right,
     up |-> _update_vectors(yaw, pitch).up,
     forward |-> _update_vectors(yaw, pitch).forward]

\* the pitch limit 1.3 of Camera.turn
PITCH_LIMIT == 1300

\* a turn that does not clamp the pitch
TurnedUnclamped(c, dyaw, dpitch) ==
    NewCamera(c.position, c.yaw + dyaw, c.pitch + dpitch)

\* Camera.turn(dyaw, dpitch)
Turned(c, dyaw, dpitch) ==
    NewCamera(c.position, c.yaw + dyaw,
              Max(0 - PITCH_LIMIT, Min(PITCH_LIMIT, c.pitch + dpitch)))

\* a move_forward along the forward vector, pitch included
MovedAlongForward(c, dist) ==
    [c EXCEPT !.position =
        <<c.position[1] + ((c.forward[1] * dist) \div 1000),
          c.position[2] + ((c.forward[2] * dist) \div 1000),
          c.position[3] + ((c.forward[3] * dist) \div 1000)>>]

\* Camera.move_forward(dist)
MovedForward(c, dist) ==
    [c EXCEPT !.position =
        <<c.position[1] + ((Sin(c.yaw) * dist) \div 1000),
          c.position[2],
          c.position[3] - ((Cos(c.yaw) * dist) \div 1000)>>]

\* Camera.move_right(dist)
MovedRight(c, dist) ==
    [c EXCEPT !.position =
        <<c.position[1] + ((c.right[1] * dist) \div 1000),
          c.position[2],
          c.position[3] + ((c.right[3] * dist) \div 1000)>>]

\* Camera.move_up(dist)
MovedUp(c, dist) ==
    [c EXCEPT !.position =
        <<c.position[1], c.position[2] + dist, c.position[3]>>]

(* Camera: the calls of the model *)

\* calls on the camera per behaviour
MaxCamOps == 3

\* the (dyaw, dpitch) of the turn calls
Turns == {<<500, 0>>, <<-1000, 500>>, <<0, -900>>, <<2200, 900>>}

\* the dist of the move calls
MoveDists == {1000, -500}

\* the record of a call: its name, its arguments, and cam before it
Called(name, arg) ==
    [name |-> name, arg |-> arg, before |-> cam, n |-> cam_op.n + 1,
     yaw_sum |-> cam_op.yaw_sum + (IF name = "turn" THEN arg[1] ELSE 0)]

\* every variable but cam and cam_op
not_camera_vars ==
    <<world_vars, ghost_vars, render_vars, model_vars, forest_vars, app_vars,
      scan_order, mode>>

\* a position in thousandths, in whole world units
WholeUnits(position) ==
    <<position[1] \div 1000, position[2] \div 1000, position[3] \div 1000>>

\* cam.turn(dyaw, dpitch)
Turn(dyaw, dpitch) ==
    /\ cam_op.n < MaxCamOps
    /\ cam' = Turned(cam, dyaw, dpitch)
    /\ cam_op' = Called("turn", <<dyaw, dpitch>>)
    /\ UNCHANGED <<not_camera_vars, camera>>

\* cam.move_forward(dist)
MoveForward(dist) ==
    /\ cam_op.n < MaxCamOps
    /\ cam' = MovedForward(cam, dist)
    /\ cam_op' = Called("move_forward", <<dist, 0>>)
    /\ camera' = WholeUnits(cam'.position)
    /\ UNCHANGED not_camera_vars

\* cam.move_right(dist)
MoveRight(dist) ==
    /\ cam_op.n < MaxCamOps
    /\ cam' = MovedRight(cam, dist)
    /\ cam_op' = Called("move_right", <<dist, 0>>)
    /\ camera' = WholeUnits(cam'.position)
    /\ UNCHANGED not_camera_vars

\* cam.move_up(dist)
MoveUp(dist) ==
    /\ cam_op.n < MaxCamOps
    /\ cam' = MovedUp(cam, dist)
    /\ cam_op' = Called("move_up", <<dist, 0>>)
    /\ camera' = WholeUnits(cam'.position)
    /\ UNCHANGED not_camera_vars

\* cam = Camera(): position Vec3(0.0, 0.0, 5.0), yaw 0, pitch 0
CameraConstructed ==
    /\ cam = NewCamera(<<0, 0, 5000>>, 0, 0)
    /\ cam_op = [name |-> "init", arg |-> <<0, 0>>, before |-> cam, n |-> 0,
                 yaw_sum |-> 0]

(* Quaternion, Model and Cube.  Quaternion components are in thousandths,
   rounded to the nearest thousandth after every product, as a float product
   is rounded to the nearest float. *)

\* Quaternion.identity(), as <<w, x, y, z>>
QIdentity == <<1000, 0, 0, 0>>

\* Quaternion.from_axis_angle(axis, angle), angle in thousandths of a radian
from_axis_angle(axis, angle) ==
    LET half == angle \div 2
        s == Sin(half)
    IN <<Cos(half), (axis[1] * s) \div 1000, (axis[2] * s) \div 1000,
         (axis[3] * s) \div 1000>>

\* a.multiply(b): the Hamilton product a * b
multiply(a, b) ==
    <<RoundHalfEven((a[1] * b[1]) - (a[2] * b[2]) - (a[3] * b[3])
                        - (a[4] * b[4]), 1000),
      RoundHalfEven((a[1] * b[2]) + (a[2] * b[1]) + (a[3] * b[4])
                        - (a[4] * b[3]), 1000),
      RoundHalfEven((a[1] * b[3]) - (a[2] * b[4]) + (a[3] * b[1])
                        + (a[4] * b[2]), 1000),
      RoundHalfEven((a[1] * b[4]) + (a[2] * b[3]) - (a[3] * b[2])
                        + (a[4] * b[1]), 1000)>>

\* q.normalize()
QNormalize(q) ==
    LET n == Isqrt((q[1] * q[1]) + (q[2] * q[2]) + (q[3] * q[3])
                       + (q[4] * q[4]))
    IN IF n > 0
       THEN <<RoundHalfEven(q[1] * 1000, n), RoundHalfEven(q[2] * 1000, n),
              RoundHalfEven(q[3] * 1000, n), RoundHalfEven(q[4] * 1000, n)>>
       ELSE q

\* q.rotate_vector(v)
rotate_vector(q, v) ==
    LET tx == RoundHalfEven(2 * ((q[3] * v[3]) - (q[4] * v[2])), 1000)
        ty == RoundHalfEven(2 * ((q[4] * v[1]) - (q[2] * v[3])), 1000)
        tz == RoundHalfEven(2 * ((q[2] * v[2]) - (q[3] * v[1])), 1000)
    IN <<v[1] + RoundHalfEven((q[1] * tx) + ((q[3] * tz) - (q[4] * ty)), 1000),
         v[2] + RoundHalfEven((q[1] * ty) + ((q[4] * tx) - (q[2] * tz)), 1000),
         v[3] + RoundHalfEven((q[1] * tz) + ((q[2] * ty) - (q[3] * tx)), 1000)>>

\* Model(vertices, faces)
NewModel(vertices, faces) ==
    [original_vertices |-> vertices, FACES |-> faces, vertices |-> vertices,
     orientation |-> QIdentity, frame_count |-> 0]

\* the vertices of Cube(size)
CubeVertices(s) ==
    <<<<-s, -s, -s>>, <<s, -s, -s>>, <<s, s, -s>>, <<-s, s, -s>>,
      <<-s, -s, s>>, <<s, -s, s>>, <<s, s, s>>, <<-s, s, s>>>>

\* the faces of a Cube: back, front, left, right, top, bottom, as indices from
\* 0 into the vertices
CubeFaces ==
    <<<<0, 1, 2, 3>>, <<5, 4, 7, 6>>, <<4, 0, 3, 7>>, <<1, 5, 6, 2>>,
      <<3, 2, 6, 7>>, <<4, 5, 1, 0>>>>

\* the default size of a Cube, 1.5
CUBE_SIZE == 1500

\* Cube()
NewCube == NewModel(CubeVertices(CUBE_SIZE), CubeFaces)

\* the orientation after the increments of one rotate call, composed in the
\* order X, Y, Z
ComposedXYZ(q, angle_x, angle_y, angle_z) ==
    LET q1 == IF angle_x # 0
              THEN multiply(from_axis_angle(<<1000, 0, 0>>, angle_x), q)
              ELSE q
        q2 == IF angle_y # 0
              THEN multiply(from_axis_angle(<<0, 1000, 0>>, angle_y), q1)
              ELSE q1
    IN IF angle_z # 0
       THEN multiply(from_axis_angle(<<0, 0, 1000>>, angle_z), q2)
       ELSE q2

\* the orientation after the increments of one rotate call: Y, then X, then
\* Z, each only if its angle is not zero
Composed(q, angle_x, angle_y, angle_z) ==
    LET q1 == IF angle_y # 0
              THEN multiply(from_axis_angle(<<0, 1000, 0>>, angle_y), q)
              ELSE q
        q2 == IF angle_x # 0
              THEN multiply(from_axis_angle(<<1000, 0, 0>>, angle_x), q1)
              ELSE q1
    IN IF angle_z # 0
       THEN multiply(from_axis_angle(<<0, 0, 1000>>, angle_z), q2)
       ELSE q2

\* the frames between two renormalizations
NORMALIZE_EVERY == 60

\* the orientation and the frame counter after one rotate call
Stepped(mo, angle_x, angle_y, angle_z) ==
    LET q == Composed(mo.orientation, angle_x, angle_y, angle_z)
        n == mo.frame_count + 1
    IN [orientation |-> IF n % NORMALIZE_EVERY = 0 THEN QNormalize(q) ELSE q,
        frame_count |-> n]

\* a rotate that writes the rotated vertices over the originals
RotatedInPlace(mo, angle_x, angle_y, angle_z) ==
    LET s == Stepped(mo, angle_x, angle_y, angle_z)
        vs == [i \in 1..Len(mo.original_vertices) |->
                  rotate_vector(s.orientation, mo.original_vertices[i])]
    IN [mo EXCEPT !.orientation = s.orientation,
                  !.frame_count = s.frame_count,
                  !.original_vertices = vs,
                  !.vertices = vs]

\* Model.rotate(angle_x, angle_y, angle_z)
Rotated(mo, angle_x, angle_y, angle_z) ==
    LET s == Stepped(mo, angle_x, angle_y, angle_z)
    IN [mo EXCEPT !.orientation = s.orientation,
                  !.frame_count = s.frame_count,
                  !.vertices =
                      [i \in 1..Min(Len(mo.original_vertices),
                                    Len(mo.vertices)) |->
                          rotate_vector(s.orientation,
                                        mo.original_vertices[i])]]

\* Model.get_face_data(): for every face its vertices, centre and normal
get_face_data(mo) ==
    [f \in 1..Len(mo.FACES) |->
        LET vs == [k \in 1..Len(mo.FACES[f]) |->
                      mo.vertices[mo.FACES[f][k] + 1]]
        IN [vs |-> vs, center |-> Centroid(vs), normal |-> FaceNormal(vs)]]

RECURSIVE MaxLength(_, _)
MaxLength(vs, i) ==
    IF i > Len(vs) THEN 0
    ELSE Max(Isqrt(Dot(vs[i], vs[i])), MaxLength(vs, i + 1))

\* Model.bounding_radius()
bounding_radius(mo) == MaxLength(mo.original_vertices, 1)

(* Model: the calls of the model *)

\* rotate calls per behaviour
MaxFrames == 61

\* the rotate calls whose angles are chosen freely; the later calls repeat
\* the angles of the call before them, as the main loop does with the speeds
\* it was started with
MaxVaried == 2

\* a quarter turn, in thousandths of a radian
QUARTER == 1570

\* the (angle_x, angle_y, angle_z) of the rotate calls
Rotations ==
    {<<0, 0, 0>>, <<0, QUARTER, 0>>, <<QUARTER, QUARTER, 0>>,
     <<QUARTER, 0, QUARTER>>}

\* every variable but mdl, mdl_op and face_data
not_model_vars ==
    <<world_vars, ghost_vars, render_vars, camera_vars, forest_vars, app_vars,
      camera, scan_order, mode>>

\* mdl.rotate(angle_x, angle_y, angle_z)
Rotate(angle_x, angle_y, angle_z) ==
    /\ mdl.frame_count < MaxFrames
    /\ mdl.frame_count < MaxVaried \/ <<angle_x, angle_y, angle_z>> = mdl_op.arg
    /\ mdl' = Rotated(mdl, angle_x, angle_y, angle_z)
    /\ mdl_op' = [name |-> "rotate", arg |-> <<angle_x, angle_y, angle_z>>,
                  before |-> mdl]
    /\ face_data' = <<>>
    /\ UNCHANGED not_model_vars

\* face_data = mdl.get_face_data()
GetFaceData ==
    /\ face_data = <<>>
    /\ face_data' = get_face_data(mdl)
    /\ mdl_op' = [mdl_op EXCEPT !.name = "get_face_data", !.before = mdl]
    /\ UNCHANGED mdl
    /\ UNCHANGED not_model_vars

\* mdl = Cube()
ModelConstructed ==
    /\ mdl = NewCube
    /\ mdl_op = [name |-> "init", arg |-> <<0, 0, 0>>, before |-> NewCube]
    /\ face_data = <<>>

(* ForestWorld.get_face_data *)

\* no get_face_data() call has returned since the last update()
NoFaces == [returned |-> FALSE, result |-> <<>>]

\* dx*dx + dz*dz > limit*limit for dx, dz in thousandths and limit in whole
\* units, without leaving 32 bits
FartherThan(dx, dz, limit) ==
    LET a1 == dx \div 1000
        b1 == dx % 1000
        a2 == dz \div 1000
        b2 == dz % 1000
        r  == ((2 * ((a1 * b1) + (a2 * b2))) * 1000) + (b1 * b1) + (b2 * b2)
        whole == (a1 * a1) + (a2 * a2) + (r \div 1000000)
    IN  \/ whole > limit * limit
        \/ whole = limit * limit /\ r % 1000000 > 0

\* ccx, ccz = cx * cs + cs * 0.5, cz * cs + cs * 0.5, in thousandths
ChunkCentre(k, cs) ==
    <<((k[1] * cs) + (cs \div 2)) * 1000, ((k[2] * cs) + (cs \div 2)) * 1000>>

\* dot_fwd < -cs * 1.5
\* the behind-camera test without its margin
BehindCameraNoMargin(k, cs, pos, fwd) ==
    LET c == ChunkCentre(k, cs)
    IN  ((c[1] - pos[1]) * fwd[1]) + ((c[2] - pos[3]) * fwd[3]) < 0

BehindCamera(k, cs, pos, fwd) ==
    LET c == ChunkCentre(k, cs)
    IN  ((c[1] - pos[1]) * fwd[1]) + ((c[2] - pos[3]) * fwd[3])
            < 0 - (cs * 1500 * 1000)

\* dx * dx + dz * dz > mtn_dist_sq, with mtn_render_dist = cs * 10.0
TooFar(k, cs, pos) ==
    LET c == ChunkCentre(k, cs)
    IN  FartherThan(c[1] - pos[1], c[2] - pos[3], cs * 10)

\* the chunk at k is not skipped by either  continue
Included(chunk, k, pos, fwd) ==
    /\ ~BehindCamera(k, chunk.chunk_size, pos, fwd)
    /\ ~(chunk.terrain_only /\ TooFar(k, chunk.chunk_size, pos))

RECURSIVE KeysFrom(_, _, _, _, _)
\* the keys of S with cx from x to xhi, by cx and then by cz
KeysFrom(S, x, xhi, zlo, zhi) ==
    IF x > xhi THEN <<>>
    ELSE SelectSeq([j \in 1..(zhi - zlo + 1) |-> <<x, zlo + j - 1>>],
                   LAMBDA k : k \in S)
         \o KeysFrom(S, x + 1, xhi, zlo, zhi)

\* for (cx, cz), chunk in self.chunks.items(): the keys in the order of the
\* loop, taken here by cx and then by cz
KeysInOrder(S) ==
    IF S = {} THEN <<>>
    ELSE KeysFrom(S, SetMin({k[1] : k \in S}), SetMax({k[1] : k \in S}),
                  SetMin({k[2] : k \in S}), SetMax({k[2] : k \in S}))

\* a culled chunk that is taken out of the chunk map
CulledAndDropped(loaded, k) == [j \in (DOMAIN loaded) \ {k} |-> loaded[j]]

\* continue: a culled chunk is passed over, and stays in the chunk map
Culled(loaded, k) == loaded

RECURSIVE AfterCulls(_, _, _, _)
\* the chunk map after the chunks skipped[lo..hi] were culled, one after
\* the other
AfterCulls(loaded, skipped, lo, hi) ==
    IF lo > hi THEN loaded
    ELSE IF lo = hi THEN Culled(loaded, skipped[lo])
    ELSE AfterCulls(AfterCulls(loaded, skipped, lo, (lo + hi) \div 2),
                    skipped, ((lo + hi) \div 2) + 1, hi)

RECURSIVE Extended(_, _, _, _)
\* result.extend(chunk.face_data) for the chunks taken[lo..hi], one after
\* the other
Extended(loaded, taken, lo, hi) ==
    IF lo > hi THEN <<>>
    ELSE IF lo = hi THEN loaded[taken[lo]].face_data
    ELSE Extended(loaded, taken, lo, (lo + hi) \div 2)
         \o Extended(loaded, taken, ((lo + hi) \div 2) + 1, hi)

\* the path markers from the spawn point to the special tree: one diamond
\* every 1.5 units, num_markers + 1 of them, each a wireframe quad tagged
\* with PATH_EDGE.  The tree is 5.0 + 3.0 * draw away; lengths in hundredths
PathMarkers(tree) ==
    IF ~tree.spawned \/ tree.pos = <<>> THEN <<>>
    ELSE [i \in 1..(((500 + (3 * tree.pos[1])) \div 150) + 1) |->
             [kind |-> "marker", at |-> <<i - 1>>, draws |-> <<PATH_EDGE>>,
              faces |-> 1]]

\* len(result): the faces of all the face groups
SumFaces(groups) ==
    Cardinality(UNION {{<<i, j>> : j \in 1..groups[i].faces} :
                           i \in 1..Len(groups)})

\* ForestWorld.get_face_data() for the chunk map `loaded`, the special tree,
\* and the position and forward vector _cam_pos and _cam_forward refer to:
\* the list returned, the chunk map it leaves and _last_face_count
world_get_face_data(loaded, tree, pos, fwd) ==
    LET keys    == KeysInOrder(DOMAIN loaded)
        taken   == SelectSeq(keys,
                             LAMBDA k : Included(loaded[k], k, pos, fwd))
        skipped == SelectSeq(keys,
                             LAMBDA k : ~Included(loaded[k], k, pos, fwd))
        all     == Extended(loaded, taken, 1, Len(taken)) \o PathMarkers(tree)
                       \o tree.face_data
    IN  [result |-> all,
         loaded |-> AfterCulls(loaded, skipped, 1, Len(skipped)),
         last_face_count |-> SumFaces(all)]

\* self._cam_pos.x, .y, .z as get_face_data reads them: of the world's own
\* vector before the first update(), of the camera's position after it
CamPos ==
    IF world_cam_pos = CameraPosition THEN cam.position ELSE <<0, 0, 0>>

\* faces = world.get_face_data()
WorldGetFaceData ==
    LET got == world_get_face_data(chunks, special_tree, CamPos,
                                   world_cam_forward)
    IN  /\ mode = "free"
        /\ chunks' = got.loaded
        /\ last_face_count' = got.last_face_count
        /\ world_faces' = [returned |-> TRUE, result |-> got.result]
        /\ UNCHANGED <<seed, render_distance, mtn_cache, last_mtn_chunks,
                       world_cam_pos, special_tree, world_cam_forward,
                       camera, ghost_vars, scan_order, mode, render_vars,
                       camera_vars, model_vars, app_vars>>

\* update() calls per behaviour in the forest
MaxForestCalls == 2

\* calls on the camera per behaviour in the forest
MaxForestOps == 1

\* the (dyaw, dpitch) of the turn calls in the forest
ForestTurns == {<<2200, 900>>}

\* the dist of the move calls in the forest: more than half a chunk
Strides == {7000}

----------------------------------------------------------------------------
(* Renderer._draw_line on its own, one iteration of its loop at a time *)

\* the end points tried: inside the 4 x 3 viewport, on its border, and far
\* outside it on every side
LineEnds == {-30, 0, 3, 9} \X {-20, 0, 2, 7}

\* the locals of _draw_line before its loop; wrote is the set of the (x, y)
\* whose cells buffer[y][x] and zbuffer[y][x] have been assigned, k the
\* number of steps taken
LineEntered(p1, p2, z1, z2, char, z_bias) ==
    [p1 |-> p1, p2 |-> p2,
     x1 |-> p1[1], y1 |-> p1[2], x2 |-> p2[1], y2 |-> p2[2],
     dx |-> Abs(p2[1] - p1[1]), dy |-> Abs(p2[2] - p1[2]),
     sx |-> IF p1[1] < p2[1] THEN 1 ELSE -1,
     sy |-> IF p1[2] < p2[2] THEN 1 ELSE -1,
     err |-> Abs(p2[1] - p1[1]) - Abs(p2[2] - p1[2]),
     total |-> Max(Abs(p2[1] - p1[1]), Abs(p2[2] - p1[2])),
     z |-> z1 + z_bias, dz |-> z2 - z1, char |-> char,
     k |-> 0, wrote |-> {}, done |-> FALSE]

\* one iteration without the test of the viewport: Python takes a negative
\* index from the end of the list
LineIterationUnclipped(l, depth) ==
    LET z    == l.z + (IF l.total > 0 THEN (l.k * l.dz) \div l.total ELSE 0)
        cell == <<l.x1 % Viewport.width, l.y1 % Viewport.height>>
        hit  == z >= depth[cell]
        e2   == 2 * l.err
        stepx == e2 > 0 - l.dy
        stepy == e2 < l.dx
        l1   == [l EXCEPT !.wrote = IF hit THEN l.wrote \cup {<<l.x1, l.y1>>}
                                    ELSE l.wrote]
    IN  [hit |-> hit, z |-> z, cell |-> cell,
         l |-> IF l.x1 = l.x2 /\ l.y1 = l.y2
               THEN [l1 EXCEPT !.done = TRUE]
               ELSE [l1 EXCEPT
                       !.x1 = IF stepx THEN l.x1 + l.sx ELSE l.x1,
                       !.y1 = IF stepy THEN l.y1 + l.sy ELSE l.y1,
                       !.err = (l.err - (IF stepx THEN l.dy ELSE 0))
                                   + (IF stepy THEN l.dx ELSE 0),
                       !.k = l.k + 1]]

\* one iteration of 'while True:' with the locals l and the z-buffer depth:
\* the depth-tested write inside the viewport, the break at (x2, y2), the
\* step
LineIteration(l, depth) ==
    LET z    == l.z + (IF l.total > 0 THEN (l.k * l.dz) \div l.total ELSE 0)
        cell == <<l.x1, l.y1>>
        hit  == /\ 0 <= l.x1 /\ l.x1 < Viewport.width
                /\ 0 <= l.y1 /\ l.y1 < Viewport.height
                /\ z >= depth[<<l.x1, l.y1>>]
        e2   == 2 * l.err
        stepx == e2 > 0 - l.dy
        stepy == e2 < l.dx
        l1   == [l EXCEPT !.wrote = IF hit THEN l.wrote \cup {<<l.x1, l.y1>>}
                                    ELSE l.wrote]
    IN  [hit |-> hit, z |-> z, cell |-> cell,
         l |-> IF l.x1 = l.x2 /\ l.y1 = l.y2
               THEN [l1 EXCEPT !.done = TRUE]
               ELSE [l1 EXCEPT
                       !.x1 = IF stepx THEN l.x1 + l.sx ELSE l.x1,
                       !.y1 = IF stepy THEN l.y1 + l.sy ELSE l.y1,
                       !.err = (l.err - (IF stepx THEN l.dy ELSE 0))
                                   + (IF stepy THEN l.dx ELSE 0),
                       !.k = l.k + 1]]

\* the next iteration of the loop of _draw_line
DrawLineStep ==
    /\ ~line_io.done
    /\ LET it == LineIteration(line_io, zbuffer)
       IN  /\ line_io' = it.l
           /\ zbuffer' = IF it.hit THEN [zbuffer EXCEPT ![it.cell] = it.z]
                         ELSE zbuffer
           /\ buffer' = IF it.hit
                        THEN [buffer EXCEPT ![it.cell] = line_io.char]
                        ELSE buffer
    /\ UNCHANGED <<world_vars, ghost_vars, camera_vars, model_vars,
                   forest_vars, mtn_io, app, camera, scan_order, mode,
                   model_faces, renderer, visible, gathered, rpc, rlog,
                   clip_io>>

----------------------------------------------------------------------------
(* SpinningModel.update in forest mode *)

\* terrain_height(cp.x, cp.z, seed) under the camera, in thousandths: the
\* values tried, from a hollow to the top of a mountain
TerrainHeights == {-6000, 0, 2400, 2500, 6600, 14500, 40000}

\* a render distance that grows with the height without a limit
EffectiveRdUncapped(base_rd, y) == base_rd + Max(0, Trunc(y, 4000))

\* extra_rd = min(4, int(cp.y / 4.0)); effective_rd = base_rd + max(0,
\* extra_rd), for a height y in thousandths
EffectiveRd(base_rd, y) == base_rd + Max(0, Min(4, Trunc(y, 4000)))

\* update() in forest mode up to the call of world.update: cp.y = ty + 1.5,
\* then the render distance and the fog distance
TrackTerrain(ty) ==
    LET effective_rd == EffectiveRd(app.base_render_dist, ty + 1500)
    IN  /\ app.pc = "ready"
        /\ app.updates < MaxFogUpdates
        /\ cam' = [cam EXCEPT !.position[2] = ty + 1500]
        /\ camera' = WholeUnits(cam'.position)
        /\ IF effective_rd # render_distance
           THEN /\ render_distance' = effective_rd
                /\ renderer' = [renderer EXCEPT
                                  !.fog_distance = 12000 * effective_rd]
           ELSE UNCHANGED <<render_distance, renderer>>
        /\ app' = [app EXCEPT !.pc = "world.update"]
        /\ UNCHANGED <<seed, chunks, mtn_cache, last_mtn_chunks,
                       world_cam_pos, special_tree, ghost_vars, scan_order,
                       mode, model_faces, visible, gathered, buffer, zbuffer,
                       rpc, rlog, clip_io, cam_op, model_vars, forest_vars,
                       mtn_io, line_io>>

\* self.world.update(self.camera), the end of update()
FrameWorldUpdate ==
    /\ app.pc = "world.update"
    /\ Commit(UpdateResult(CamChunk(camera, CHUNK_SIZE)))
    /\ app' = [app EXCEPT !.pc = "ready", !.updates = app.updates + 1]
    /\ UNCHANGED <<seed, render_distance, camera, scan_order, mode,
                   render_vars, camera_vars, model_vars, last_face_count,
                   world_faces, mtn_io, line_io>>

----------------------------------------------------------------------------
(* chunk_has_mountain on its own *)

\* the chunk coordinates asked about: the chunks around world point (6, 45)
LandmarkXs == (-2)..2

LandmarkZs == 0..6

\* the chunk sizes asked about; the application's is 12
ChunkSizes == {8, CHUNK_SIZE, 16}

\* the seeds asked about: --seed takes any integer
ProbeSeeds == {-7, 0, 1, 42, 12345}

\* result = chunk_has_mountain(cx, cz, chunk_size, seed); noisy records
\* whether the noise at the chunk centre exceeds the threshold
ChunkHasMountain ==
    /\ ~mtn_io.returned
    /\ mtn_io' = [mtn_io EXCEPT
                     !.returned = TRUE,
                     !.result = chunk_has_mountain(mtn_io.cx, mtn_io.cz,
                                                   mtn_io.cs, mtn_io.sd),
                     !.noisy = MtnNoise(
                         (mtn_io.cx * mtn_io.cs) + (mtn_io.cs \div 2),
                         (mtn_io.cz * mtn_io.cs) + (mtn_io.cs \div 2),
                         mtn_io.sd) > MTN_THRESHOLD]
    /\ UNCHANGED <<world_vars, ghost_vars, render_vars, camera_vars,
                   model_vars, forest_vars, line_io, app, camera, scan_order,
                   mode>>

----------------------------------------------------------------------------
(* main and SpinningModel.run, update, render: the order of the calls *)

not_app_vars ==
    <<world_vars, ghost_vars, render_vars, camera_vars, model_vars,
      forest_vars, mtn_io, line_io, camera, scan_order, mode>>

\* app with one more event in the log of the frame in the making
Logged_(a, event) == [a EXCEPT !.log = Append(a.log, event)]

\* app = SpinningModel(args); if args.frame is not None: ... else: app.run()
\* run() starts with _setup_keyboard()
Main ==
    /\ app.pc = "main"
    /\ app' = IF app.frame_given
              THEN [app EXCEPT !.pc = "for", !.i = 0]
              ELSE [app EXCEPT !.pc = "while", !.keyboard = TRUE]
    /\ UNCHANGED not_app_vars

\* for _ in range(args.frame): app.update()   and, the range exhausted,
\* app.render()
ForStep ==
    /\ app.pc = "for"
    /\ app' = IF app.i < app.frame
              THEN [app EXCEPT !.pc = "update", !.i = app.i + 1]
              ELSE [app EXCEPT !.pc = "gather"]
    /\ UNCHANGED not_app_vars

\* while self.running:
WhileTest ==
    /\ app.pc = "while"
    /\ app.frames < MaxAppFrames
    /\ app' = [app EXCEPT
                 !.pc = IF app.running THEN "update" ELSE "exit",
                 !.read_at = app.read_at \cup {[pc |-> app.pc,
                                                log |-> app.log]}]
    /\ UNCHANGED not_app_vars

\* self.update(): _handle_input(), where a q among the keys clears running
\* and there are no keys without a keyboard, then the chunk loading of the
\* forest or the rotation of the model
AppUpdate(q) ==
    /\ app.pc = "update"
    /\ q => app.keyboard
    /\ app' = [Logged_(app, IF app.forest_mode THEN "world.update"
                                               ELSE "model.rotate")
                 EXCEPT !.pc = IF app.frame_given THEN "for" ELSE "gather",
                        !.running = app.running /\ ~q]
    /\ UNCHANGED not_app_vars

\* self.render(): renderer.render(...) starts with get_face_data()
AppGather ==
    /\ app.pc = "gather"
    /\ app' = [Logged_(app, "get_face_data") EXCEPT !.pc = "rasterize"]
    /\ UNCHANGED not_app_vars

\* the rest of renderer.render(...)
AppRasterize ==
    /\ app.pc = "rasterize"
    /\ app' = [Logged_(app, "rasterize") EXCEPT !.pc = "write"]
    /\ UNCHANGED not_app_vars

\* sys.stdout.write(out); sys.stdout.flush()
AppWrite ==
    /\ app.pc = "write"
    /\ app' = [Logged_(app, "write") EXCEPT
                 !.pc = IF app.frame_given THEN "exit" ELSE "sleep",
                 !.frames = app.frames + 1]
    /\ UNCHANGED not_app_vars

\* time.sleep(...), and back to the loop test with the next frame's log
AppSleep ==
    /\ app.pc = "sleep"
    /\ app' = [app EXCEPT !.pc = "while", !.log = <<>>]
    /\ UNCHANGED not_app_vars

\* _signal_handler(signum, frame), at any point of the program
SignalHandler ==
    /\ app.pc \notin {"none", "exit"}
    /\ app.running
    /\ app' = [app EXCEPT !.running = FALSE]
    /\ UNCHANGED not_app_vars

vars == <<world_vars, camera, scan_order, mode, ghost_vars, render_vars,
          object_vars>>

\* no render call is in progress
RenderIdle ==
    /\ model_faces = <<>>
    /\ renderer = [path |-> "persp", fog_distance |-> 0, draw_edges |-> TRUE]
    /\ visible = <<>>
    /\ gathered = <<>>
    /\ buffer = <<>>
    /\ zbuffer = <<>>
    /\ rpc = [phase |-> "done", i |-> 0]
    /\ rlog = <<>>
    /\ clip_io = [cam_vs |-> <<>>, out |-> <<>>, done |-> TRUE]

\* ForestWorld.__init__ and Camera(position=Vec3(6.0, 1.5, 6.0))
InitWorld ==
    /\ seed \in Seeds
    /\ render_distance \in RenderDistances
    /\ chunks = <<>>
    /\ mtn_cache = <<>>
    /\ last_mtn_chunks = 0
    /\ world_cam_pos = OwnPosition
    /\ world_cam_forward = <<0, 0, -1000>>
    /\ last_face_count = 0
    /\ world_faces = NoFaces
    /\ special_tree = NoSpecialTree
    /\ camera = <<6, 1, 6>>
    /\ scan_order \in ScanOrders
    /\ calls = 0
    /\ stable = 0
    /\ last_update = [cam |-> <<0, 0>>, rd |-> 0, mtn |-> {},
                      removed |-> {}, created |-> <<>>]
    /\ evicted = <<>>
    /\ generated = <<>>

\* a renderer with a model and no forest world: ForestWorld.update is never
\* called
NoWorld ==
    /\ seed \in Seeds
    /\ render_distance = SetMin(RenderDistances)
    /\ chunks = <<>>
    /\ mtn_cache = <<>>
    /\ last_mtn_chunks = 0
    /\ world_cam_pos = OwnPosition
    /\ world_cam_forward = <<0, 0, -1000>>
    /\ last_face_count = 0
    /\ world_faces = NoFaces
    /\ special_tree = NoSpecialTree
    /\ scan_order = "asc"
    /\ mode = "render"
    /\ calls = 0
    /\ stable = 0
    /\ last_update = [cam |-> <<0, 0>>, rd |-> 0, mtn |-> {},
                      removed |-> {}, created |-> <<>>]
    /\ evicted = <<>>
    /\ generated = <<>>

\* no call of chunk_has_mountain on its own
MountainIdle == mtn_io = [cx |-> 0, cz |-> 0, cs |-> CHUNK_SIZE, sd |-> 0,
                          returned |-> TRUE, result |-> FALSE,
                          noisy |-> FALSE]

\* no call of _draw_line on its own
LineIdle == line_io = [done |-> TRUE]

\* no application around the objects
NoApp == app = [pc |-> "none"]

AppIdle == MountainIdle /\ LineIdle /\ NoApp

\* the objects no call is made on
ObjectsIdle == CameraConstructed /\ ModelConstructed /\ AppIdle

Init == InitWorld /\ mode = "free" /\ RenderIdle /\ ObjectsIdle

InitRest == InitWorld /\ mode = "rest" /\ RenderIdle /\ ObjectsIdle

\* the camera moves once, after the first update() call, and stays there
InitSettle == InitWorld /\ mode = "settle" /\ RenderIdle /\ ObjectsIdle

\* a camera on its own
InitCamera ==
    /\ NoWorld
    /\ camera = <<0, 0, 5>>
    /\ RenderIdle
    /\ CameraConstructed
    /\ ModelConstructed
    /\ AppIdle

\* a forest world and the camera that walks in it:
\* Camera(position=Vec3(6.0, 1.5, 6.0))
InitForest ==
    /\ InitWorld
    /\ mode = "free"
    /\ scan_order = "asc"
    /\ RenderIdle
    /\ ModelConstructed
    /\ AppIdle
    /\ cam = NewCamera(<<6000, 1500, 6000>>, 0, 0)
    /\ cam_op = [name |-> "init", arg |-> <<0, 0>>, before |-> cam, n |-> 0,
                 yaw_sum |-> 0]

\* chunk_has_mountain about to be called on a chunk near the landmark
InitMountain ==
    /\ NoWorld
    /\ camera = <<0, 0, 5>>
    /\ RenderIdle
    /\ CameraConstructed
    /\ ModelConstructed
    /\ LineIdle
    /\ NoApp
    /\ mtn_io \in [cx : LandmarkXs, cz : LandmarkZs, cs : ChunkSizes,
                   sd : ProbeSeeds, returned : {FALSE}, result : {FALSE},
                   noisy : {FALSE}]

\* main() after parse_args and SpinningModel(args): args.frame is None or an
\* integer, which main does not validate
InitApp ==
    /\ NoWorld
    /\ camera = <<0, 0, 5>>
    /\ RenderIdle
    /\ CameraConstructed
    /\ ModelConstructed
    /\ MountainIdle
    /\ LineIdle
    /\ app \in [pc : {"main"}, frame_given : BOOLEAN, frame : 0..MaxFrameArg,
                forest_mode : BOOLEAN, keyboard : {FALSE}, running : {TRUE},
                i : {0}, frames : {0}, log : {<<>>}, read_at : {{}}]
    /\ app.frame_given \/ app.frame = 0

\* _draw_line(buffer, zbuffer, p1, p2, z1, z2, char) about to run on a blank
\* frame, as render() hands it one
InitLine ==
    /\ NoWorld
    /\ camera = <<0, 0, 5>>
    /\ CameraConstructed
    /\ ModelConstructed
    /\ MountainIdle
    /\ NoApp
    /\ model_faces = <<>>
    /\ renderer = [path |-> "persp", fog_distance |-> 0, draw_edges |-> TRUE]
    /\ visible = <<>>
    /\ gathered = <<>>
    /\ buffer = [p \in Pixels |-> <<" ">>]
    /\ zbuffer = [p \in Pixels |-> Z_FAR]
    /\ rpc = [phase |-> "done", i |-> 0]
    /\ rlog = <<>>
    /\ clip_io = [cam_vs |-> <<>>, out |-> <<>>, done |-> TRUE]
    /\ \E p1 \in LineEnds, p2 \in LineEnds :
           line_io = LineEntered(p1, p2, -3000, -5000, EDGE_STR, Z_BIAS)

\* SpinningModel(args) with --forest: the world, the renderer with its fog
\* and the camera at eye level
InitFog ==
    /\ seed \in Seeds
    /\ render_distance \in FogBases
    /\ chunks = <<>>
    /\ mtn_cache = <<>>
    /\ last_mtn_chunks = 0
    /\ world_cam_pos = OwnPosition
    /\ world_cam_forward = <<0, 0, -1000>>
    /\ last_face_count = 0
    /\ world_faces = NoFaces
    /\ special_tree = NoSpecialTree
    /\ camera = <<6, 1, 6>>
    /\ scan_order = "asc"
    /\ mode = "frame"
    /\ calls = 0
    /\ stable = 0
    /\ last_update = [cam |-> <<0, 0>>, rd |-> 0, mtn |-> {},
                      removed |-> {}, created |-> <<>>]
    /\ evicted = <<>>
    /\ generated = <<>>
    /\ model_faces = <<>>
    /\ renderer = [path |-> "persp",
                   fog_distance |-> 12000 * render_distance,
                   draw_edges |-> TRUE]
    /\ visible = <<>>
    /\ gathered = <<>>
    /\ buffer = <<>>
    /\ zbuffer = <<>>
    /\ rpc = [phase |-> "done", i |-> 0]
    /\ rlog = <<>>
    /\ clip_io = [cam_vs |-> <<>>, out |-> <<>>, done |-> TRUE]
    /\ ModelConstructed
    /\ MountainIdle
    /\ LineIdle
    /\ cam = NewCamera(<<6000, 1500, 6000>>, 0, 0)
    /\ cam_op = [name |-> "init", arg |-> <<0, 0>>, before |-> cam, n |-> 0,
                 yaw_sum |-> 0]
    /\ app = [pc |-> "ready", forest_mode |-> TRUE,
              base_render_dist |-> render_distance, updates |-> 0]

\* a cube on its own
InitModel ==
    /\ NoWorld
    /\ camera = <<0, 0, 5>>
    /\ RenderIdle
    /\ CameraConstructed
    /\ ModelConstructed
    /\ AppIdle

\* render(model, camera) of one ground face, and a call of the clipper on
\* the camera-space vertices of that face
InitClip ==
    /\ NoWorld
    /\ ObjectsIdle
    /\ camera \in RenderCamPositions
    /\ clip_io \in {[cam_vs |-> p, out |-> <<>>, done |-> FALSE] :
                       p \in ClipPolygons}
    /\ model_faces = <<GroundFace(clip_io.cam_vs, CamMilli(camera))>>
    /\ renderer = [path |-> "persp", fog_distance |-> 0, draw_edges |-> TRUE]
    /\ visible = <<>>
    /\ gathered = <<>>
    /\ buffer = <<>>
    /\ zbuffer = <<>>
    /\ rpc = [phase |-> "gather", i |-> 0]
    /\ rlog = <<>>

\* render(model) or render(model, camera) of two quads; _render_ortho takes
\* faces without a wireframe marker only
InitRender ==
    /\ NoWorld
    /\ ObjectsIdle
    /\ camera = <<0, 0, 0>>
    /\ renderer \in [path : {"ortho", "persp"}, fog_distance : FogDistances,
                     draw_edges : BOOLEAN]
    /\ model_faces \in {<<a, b>> : a \in RenderFaces, b \in RenderFaces}
    /\ Persp \/ \A i \in DOMAIN model_faces : model_faces[i].wireframe = None
    /\ visible = <<>>
    /\ gathered = <<>>
    /\ buffer = <<>>
    /\ zbuffer = <<>>
    /\ rpc = [phase |-> "gather", i |-> 0]
    /\ rlog = <<>>
    /\ clip_io = [cam_vs |-> <<>>, out |-> <<>>, done |-> TRUE]

Next ==
    \/ Update
    \/ \E p \in CamPositions : MoveCamera(p)
    \/ \E r \in RenderDistances : SetRenderDistance(r)

NextRender ==
    \/ Gather
    \/ FillFace
    \/ EdgeFace

NextCamera ==
    \/ \E t \in Turns : Turn(t[1], t[2])
    \/ \E d \in MoveDists : MoveForward(d)
    \/ \E d \in MoveDists : MoveRight(d)
    \/ \E d \in MoveDists : MoveUp(d)

NextForest ==
    \/ calls < MaxForestCalls /\ Update
    \/ cam_op.n < MaxForestOps /\ \E t \in ForestTurns : Turn(t[1], t[2])
    \/ cam_op.n < MaxForestOps /\ \E d \in Strides : MoveForward(d)
    \/ cam_op.n < MaxForestOps /\ \E d \in Strides : MoveRight(d)
    \/ cam_op.n < MaxForestOps /\ \E d \in Strides : MoveUp(d)
    \/ WorldGetFaceData

NextCache ==
    \/ calls < MaxCacheCalls /\ Update
    \/ \E p \in CamPositions : MoveCamera(p)
    \/ \E r \in RenderDistances : SetRenderDistance(r)

NextMountain == ChunkHasMountain

NextLine == DrawLineStep

NextFog ==
    \/ \E ty \in TerrainHeights : TrackTerrain(ty)
    \/ FrameWorldUpdate

NextApp ==
    \/ Main
    \/ ForStep
    \/ WhileTest
    \/ \E q \in BOOLEAN : AppUpdate(q)
    \/ AppGather
    \/ AppRasterize
    \/ AppWrite
    \/ AppSleep
    \/ SignalHandler

NextModel ==
    \/ \E r \in Rotations : Rotate(r[1], r[2], r[3])
    \/ GetFaceData

NextClip ==
    \/ Gather
    \/ FillFace
    \/ EdgeFace
    \/ ClipCall

\* the camera moves freely between update() calls
Spec == Init /\ [][Next]_vars

\* update() is called again and again, as the frame loop does
SpecSettle == InitSettle /\ [][Next]_vars /\ WF_calls(UpdateCalled)

\* the same world, followed for fewer calls
SpecCache == Init /\ [][NextCache]_vars

\* the camera comes to rest after at most MaxPre update() calls
SpecRest == InitRest /\ [][Next]_vars

\* one render call of a scene of two quads
SpecRender == InitRender /\ [][NextRender]_vars

\* one render call of a ground face near the camera, and the clipper on its
\* own
SpecClip == InitClip /\ [][NextClip]_vars

\* a camera that is turned and moved
SpecCamera == InitCamera /\ [][NextCamera]_vars

\* a forest world that is updated and asked for its faces while the camera
\* walks and turns
SpecForest == InitForest /\ [][NextForest]_vars

\* main() and SpinningModel.run()
SpecApp == InitApp /\ [][NextApp]_vars

\* single calls of _draw_line, which run on once they have started
SpecLine == InitLine /\ [][NextLine]_vars /\ WF_vars(DrawLineStep)

\* SpinningModel.update() in forest mode, over ground of any height
SpecFog == InitFog /\ [][NextFog]_vars

\* single calls of chunk_has_mountain
SpecMountain == InitMountain /\ [][NextMountain]_vars

\* a cube that is rotated and asked for its faces
SpecModel == InitModel /\ [][NextModel]_vars

----------------------------------------------------------------------------
(* Properties of ForestWorld.update *)

\* the number of chunks the last update() created in tier t
CreatedIn(t) ==
    Cardinality({i \in 1..Len(last_update.created) :
                     last_update.created[i][2] = t})

\* the key lies in one of the three tiers the last update() computed
InTiers(k) ==
    \/ InSquare(k, last_update.cam, last_update.rd)
    \/ InSquare(k, last_update.cam, TerrainRd(last_update.rd))
    \/ k \in last_update.mtn

\* C1: after every update() call, every key of chunks lies in the union of
\* the tier-1, tier-2 and tier-3 sets that call computed.
C1_ChunksWithinTiers ==
    calls > 0 => \A k \in DOMAIN chunks : InTiers(k)

\* an update() that unloaded chunks, created chunks, and left chunks of all
\* three tiers loaded
C1_Witness ==
    /\ calls > 0
    /\ last_update.removed # {}
    /\ last_update.created # <<>>
    /\ \E k \in DOMAIN chunks : InSquare(k, last_update.cam, last_update.rd)
    /\ \E k \in DOMAIN chunks : k \in last_update.mtn
    /\ \E k \in DOMAIN chunks :
          /\ ~InSquare(k, last_update.cam, last_update.rd)
          /\ InSquare(k, last_update.cam, TerrainRd(last_update.rd))

\* C2: while the camera chunk and the render distance stay the same, after
\* at most ceil((2*rd+1)^2 / tier-1 budget) update() calls chunks holds
\* every tier-1 coordinate, and holds them on every later call.
C2_Tier1Complete ==
    LET rd     == last_update.rd
        budget == IF rd <= 3 THEN 2 ELSE 4
        side   == (2 * rd) + 1
        enough == ((side * side) + budget - 1) \div budget
    IN  (calls > 0 /\ stable >= enough)
            => \A k \in Tier1(last_update.cam, rd) : k \in DOMAIN chunks

\* the call that reaches the bound exactly, at render distance 4 (the 21st
\* of ceil(81 / 4) = 21), and still had a tier-1 chunk to create
C2_Witness ==
    /\ last_update.rd = 4
    /\ stable = 21
    /\ CreatedIn(1) > 0

\* C3: one update() call creates at most 2 tier-1 chunks when rd <= 3 and
\* at most 4 when rd > 3, at most 8 tier-2 and at most 8 tier-3 chunks; it
\* creates the tier-1 chunks before any tier-2 or tier-3 chunk, each chunk
\* in the tier whose loop created it, and the tier-1 budget is spent on
\* tier-1 chunks only: a call that spends less than it leaves no tier-1
\* coordinate unloaded.
C3_Budgets ==
    LET cr == last_update.created
        c  == last_update.cam
        rd == last_update.rd
    IN  /\ CreatedIn(1) <= (IF rd <= 3 THEN 2 ELSE 4)
        /\ CreatedIn(2) <= 8
        /\ CreatedIn(3) <= 8
        /\ \A i, j \in 1..Len(cr) : (cr[i][2] = 1 /\ cr[j][2] > 1) => i < j
        /\ \A i \in 1..Len(cr) :
              /\ cr[i][2] = 1 => InSquare(cr[i][1], c, rd)
              /\ cr[i][2] = 2 => /\ ~InSquare(cr[i][1], c, rd)
                                 /\ InSquare(cr[i][1], c, TerrainRd(rd))
              /\ cr[i][2] = 3 => cr[i][1] \in last_update.mtn
        /\ (calls > 0 /\ CreatedIn(1) < (IF rd <= 3 THEN 2 ELSE 4))
              => \A k \in Tier1(c, rd) : k \in DOMAIN chunks

\* a call at render distance 4 that spent all three budgets
C3_Witness ==
    /\ last_update.rd = 4
    /\ CreatedIn(1) = 4
    /\ CreatedIn(2) = 8
    /\ CreatedIn(3) = 8

\* C4: every loaded chunk within Chebyshev distance rd of the camera chunk
\* is full detail and every loaded chunk of tier 2 or 3 is terrain-only.
\* update() never rebuilds a chunk that is already loaded, so a chunk keeps
\* the detail of the tier it was created in when the camera moves.
C4_DetailFollowsTier ==
    calls > 0 =>
        \A k \in DOMAIN chunks :
            chunks[k].terrain_only
                <=> ~InSquare(k, last_update.cam, last_update.rd)

----------------------------------------------------------------------------
(* Properties of the Renderer *)

\* the fill loop has run to its end and no edge has been drawn yet
FillsComplete ==
    /\ rpc.phase \in {"edge", "done"}
    /\ \A j \in DOMAIN rlog : rlog[j][1] # "edge"

\* what the fill routine of the path computes for pixel p of face i
Fragment(i, p) ==
    IF Persp
    THEN PerspFragment(visible[i], p[1], p[2], renderer.fog_distance,
                       CamMilli(camera))
    ELSE OrthoFragment(visible[i], p[1], p[2])

\* the fill routine of the path reaches the depth test for pixel p of face i
Covers(i, p) ==
    IF Persp THEN PerspCovers(visible[i], p[1], p[2]) /\ Fragment(i, p).ok
    ELSE OrthoCovers(visible[i], p[1], p[2])

\* C7: when two opaque faces have both been filled, every pixel where they
\* overlap at different depths shows the shade of the nearer face, in either
\* fill order, in the orthographic and in the perspective fill routine, with
\* and without fog.
C7_NearerShadeWins ==
    (FillsComplete /\ Len(visible) = 2 /\ Fills(1) /\ Fills(2)) =>
        \A p \in Pixels :
            (Covers(1, p) /\ Covers(2, p)
                 /\ Fragment(1, p).z # Fragment(2, p).z) =>
                LET nearer == IF Fragment(1, p).z > Fragment(2, p).z
                              THEN 1 ELSE 2
                IN buffer[p] = Shade(Fragment(nearer, p).idx)

\* C8: in the perspective pipeline, a face whose near-plane clip has at
\* least 3 vertices has every clipped vertex projected to a screen
\* coordinate and is appended to visible.
C8_ClippedFaceKept ==
    \A i \in DOMAIN gathered :
        Len(gathered[i].clipped) >= 3 =>
            /\ AllProjected(gathered[i].projected)
            /\ gathered[i].kept

\* the vertices of the clipper's argument in front of the near plane
InFront == {i \in DOMAIN clip_io.cam_vs : clip_io.cam_vs[i][3] > near_plane}

\* the vertices of the clipper's argument behind the near plane
Behind == {i \in DOMAIN clip_io.cam_vs : clip_io.cam_vs[i][3] < near_plane}

\* the edges of the clipper's argument with one end in front of the near
\* plane (depth > near) and the other end not
Crossing ==
    {i \in DOMAIN clip_io.cam_vs :
         (i \in InFront) # (((i % Len(clip_io.cam_vs)) + 1) \in InFront)}

\* C9: _clip_polygon_near returns as many vertices as the polygon has
\* vertices of depth > near plus edges that cross the near plane; a triangle
\* with one vertex behind and two in front gives 4 vertices, a triangle with
\* all vertices behind gives none, a polygon entirely in front comes back
\* unchanged, and no returned vertex has a depth below near.
C9_ClipCount ==
    clip_io.done =>
        /\ Len(clip_io.out) = Cardinality(InFront) + Cardinality(Crossing)
        /\ (/\ Len(clip_io.cam_vs) = 3
            /\ Cardinality(Behind) = 1
            /\ Cardinality(InFront) = 2) => Len(clip_io.out) = 4
        /\ (Len(clip_io.cam_vs) = 3 /\ Cardinality(Behind) = 3) =>
               Len(clip_io.out) = 0
        /\ InFront = DOMAIN clip_io.cam_vs => clip_io.out = clip_io.cam_vs
        /\ \A j \in DOMAIN clip_io.out : clip_io.out[j][3] >= near_plane

\* a triangle with one vertex behind the near plane and two in front has
\* been clipped to 4 vertices
C9_Witness ==
    /\ clip_io.done
    /\ Len(clip_io.cam_vs) = 3
    /\ Cardinality(Behind) = 1
    /\ Cardinality(InFront) = 2
    /\ Len(clip_io.out) = 4

\* C10: within one render call, orthographic or perspective, no fill comes
\* after an edge drawing, and once an edge has been drawn every face the
\* call fills has been filled.
C10_FillsBeforeEdges ==
    /\ \A j \in DOMAIN rlog : \A k \in DOMAIN rlog :
           (j < k /\ rlog[j][1] = "edge") => rlog[k][1] # "fill"
    /\ (\E j \in DOMAIN rlog : rlog[j][1] = "edge") =>
           \A i \in DOMAIN visible : Fills(i) => <<"fill", i>> \in Range(rlog)

\* a perspective render call has filled two faces and then drawn the edges
\* of both
C10_Witness ==
    /\ rpc.phase = "done"
    /\ Persp
    /\ rlog = <<<<"fill", 1>>, <<"fill", 2>>, <<"edge", 1>>, <<"edge", 2>>>>

\* the edge loop passes over face i of visible because fog has faded it out
FoggedOut(i) ==
    /\ renderer.fog_distance > 0
    /\ FogFade(visible[i], renderer.fog_distance) < 30

\* face i of visible has been filled, or edge-drawn
Logged(kind, i) == <<kind, i>> \in Range(rlog)

Nearest(i, p) ==
    /\ Fills(i)
    /\ Covers(i, p)
    /\ \A j \in DOMAIN visible :
           (j # i /\ Fills(j) /\ Covers(j, p)) =>
               Fragment(j, p).z < Fragment(i, p).z

C13_TaggedMarkerIgnoresFog ==
    (rpc.phase = "done" /\ Persp /\ renderer.fog_distance > 0) =>
        \A i \in DOMAIN visible :
            (visible[i].wireframe # None
                 /\ visible[i].wireframe # TERRAIN_WIRE) =>
                /\ Logged("edge", i)
                /\ EdgeStr(visible[i],
                           FogFade(visible[i], renderer.fog_distance))
                       = visible[i].wireframe

\* the cross product of the edges from vs[1] to vs[j] and to vs[k], exactly
EdgeCross(vs, j, k) ==
    LET a == <<vs[j][1] - vs[1][1], vs[j][2] - vs[1][2], vs[j][3] - vs[1][3]>>
        b == <<vs[k][1] - vs[1][1], vs[k][2] - vs[1][2], vs[k][3] - vs[1][3]>>
    IN <<(a[2] * b[3]) - (a[3] * b[2]), (a[3] * b[1]) - (a[1] * b[3]),
         (a[1] * b[2]) - (a[2] * b[1])>>

\* the polygon has no area: its vertices lie on one line
ZeroArea(vs) ==
    \A j \in DOMAIN vs : \A k \in DOMAIN vs :
        EdgeCross(vs, j, k) = <<0, 0, 0>>

\* C20: a face of no area has the zero vector as its normal; the
\* orthographic path never takes it into visible; the perspective fill finds
\* a zero denominator at every pixel it visits for the face and skips the
\* pixel before dividing, so that its fill leaves buffer and zbuffer as they
\* were.
C20_DegenerateFaceTolerated ==
    /\ \A i \in DOMAIN model_faces :
           (model_faces[i].wireframe = None /\ ZeroArea(model_faces[i].vs)) =>
               /\ model_faces[i].normal = <<0, 0, 0>>
               /\ (~Persp /\ rpc.phase # "gather") =>
                      \A j \in DOMAIN visible :
                          visible[j].vs # model_faces[i].vs
    /\ Persp =>
           \A j \in DOMAIN visible :
               (visible[j].wireframe = None /\ ZeroArea(visible[j].vs)) =>
                   /\ \A p \in Pixels :
                          PerspCovers(visible[j], p[1], p[2]) =>
                              /\ Fragment(j, p).denom = 0
                              /\ ~Fragment(j, p).ok
                   /\ (j = 1 /\ rlog = <<<<"fill", 1>>>>) =>
                          \A p \in Pixels :
                              buffer[p] = <<" ">> /\ zbuffer[p] = Z_FAR

\* a perspective call has run the fill routine on a face of no area, which
\* visited pixels of it, and buffer and zbuffer are still empty
C20_Witness ==
    /\ Persp
    /\ rpc = [phase |-> "fill", i |-> 2]
    /\ rlog = <<<<"fill", 1>>>>
    /\ ZeroArea(visible[1].vs)
    /\ \E p \in Pixels : PerspCovers(visible[1], p[1], p[2])
    /\ \A p \in Pixels : buffer[p] = <<" ">> /\ zbuffer[p] = Z_FAR

----------------------------------------------------------------------------
(* Properties of the Camera *)

\* C14: after any sequence of turn calls the pitch lies in [-1.3, 1.3], the
\* yaw is the plain sum of all dyaw, neither wrapped nor clamped, and right,
\* up and forward are the vectors of the current yaw and pitch.
C14_TurnClampsPitchOnly ==
    /\ cam.pitch >= -1300
    /\ cam.pitch <= 1300
    /\ cam.yaw = cam_op.yaw_sum
    /\ cam.right = _update_vectors(cam.yaw, cam.pitch).right
    /\ cam.up = _update_vectors(cam.yaw, cam.pitch).up
    /\ cam.forward = _update_vectors(cam.yaw, cam.pitch).forward

\* a turn has been clamped at pitch 1.3 with the yaw beyond a full turn
\* left unwrapped
C14_Witness ==
    /\ cam_op.name = "turn"
    /\ cam_op.before.pitch + cam_op.arg[2] > 1300
    /\ cam.pitch = 1300
    /\ cam.yaw > 2 * PI_MILLI

\* C15: move_forward and move_right leave position.y, yaw, pitch, right, up
\* and forward as they were, at every pitch; move_up adds dist to position.y
\* and changes nothing else; turn leaves the position as it was.
C15_MovesAreHorizontal ==
    LET b == cam_op.before
    IN /\ cam_op.name \in {"move_forward", "move_right"} =>
              /\ cam.position[2] = b.position[2]
              /\ <<cam.yaw, cam.pitch, cam.right, cam.up, cam.forward>>
                     = <<b.yaw, b.pitch, b.right, b.up, b.forward>>
       /\ cam_op.name = "move_up" =>
              /\ cam.position
                     = <<b.position[1], b.position[2] + cam_op.arg[1],
                         b.position[3]>>
              /\ <<cam.yaw, cam.pitch, cam.right, cam.up, cam.forward>>
                     = <<b.yaw, b.pitch, b.right, b.up, b.forward>>
       /\ cam_op.name = "turn" => cam.position = b.position

\* the camera looks up at pitch 0.9 and a move_forward has moved it, at the
\* height it had
C15_Witness ==
    /\ cam_op.name = "move_forward"
    /\ cam.pitch = 900
    /\ cam.position # cam_op.before.position
    /\ cam.position[2] = cam_op.before.position[2]

\* a x b for vectors in thousandths, in millionths
CrossMicro(a, b) ==
    <<(a[2] * b[3]) - (a[3] * b[2]), (a[3] * b[1]) - (a[1] * b[3]),
      (a[1] * b[2]) - (a[2] * b[1])>>

\* right, up and forward of cam are of length one and orthogonal to each
\* other, to within 0.005
Orthonormal ==
    /\ \A v \in {cam.right, cam.up, cam.forward} :
           Abs(Dot(v, v) - 1000000) <= 5000
    /\ Abs(Dot(cam.right, cam.up)) <= 5000
    /\ Abs(Dot(cam.right, cam.forward)) <= 5000
    /\ Abs(Dot(cam.up, cam.forward)) <= 5000

\* right x up is sign times forward, to within 0.005
RightCrossUpIs(sign) ==
    \A i \in 1..3 :
        Abs(CrossMicro(cam.right, cam.up)[i] - (sign * 1000 * cam.forward[i]))
            <= 5000

\* C16: for every (yaw, pitch) the camera can have, right, up and forward are
\* unit vectors orthogonal to each other with right x up = forward, and at
\* yaw = 0, pitch = 0 forward is (0, 0, -1).
C16_RightHandedBasis ==
    /\ Orthonormal
    /\ RightCrossUpIs(1)
    /\ (cam.yaw = 0 /\ cam.pitch = 0) => cam.forward = <<0, 0, -1000>>

\* C16 as the code has it: right, up and forward are unit vectors orthogonal
\* to each other with right x up = -forward, so that (right, up, forward) is
\* a left-handed triple, and at yaw = 0, pitch = 0 forward is (0, 0, -1).
C16_LeftHandedBasis ==
    /\ Orthonormal
    /\ RightCrossUpIs(-1)
    /\ (cam.yaw = 0 /\ cam.pitch = 0) => cam.forward = <<0, 0, -1000>>

\* the camera has been turned to a yaw and a pitch that are both off the
\* axes, and its vectors have been recomputed
C16_Witness ==
    /\ cam_op.name = "turn"
    /\ cam.yaw = 1200
    /\ cam.pitch = 1300
    /\ cam.up[1] # 0
    /\ cam.forward[2] > 900

----------------------------------------------------------------------------
(* Properties of the Model *)

\* the face records of face_data whose normal has z > 0
FacingZ == {f \in 1..Len(face_data) : face_data[f].normal[3] > 0}

\* face_data is of a cube that was never rotated
OfIdentityCube == face_data # <<>> /\ mdl.frame_count = 0

\* C17: of the 6 face records that get_face_data returns for a Cube that was
\* never rotated, exactly 3 have normal.z > 0, and each of those normals is
\* one of (0,0,1), (1,0,0), (0,1,0).
C17_ThreeFacesTowardsZ ==
    OfIdentityCube =>
        /\ Len(face_data) = 6
        /\ Cardinality(FacingZ) = 3
        /\ \A f \in FacingZ :
               face_data[f].normal
                   \in {<<0, 0, 1000>>, <<1000, 0, 0>>, <<0, 1000, 0>>}

\* C17 as the code has it: exactly 1 of the 6 face records has normal.z > 0,
\* the front face (5, 4, 7, 6) with normal (0,0,1); the normals of the right
\* and top faces are (1,0,0) and (0,1,0), with z = 0.
C17_OneFaceTowardsZ ==
    OfIdentityCube =>
        /\ Len(face_data) = 6
        /\ FacingZ = {2}
        /\ face_data[2].normal = <<0, 0, 1000>>
        /\ face_data[4].normal = <<1000, 0, 0>>
        /\ face_data[5].normal = <<0, 1000, 0>>

\* get_face_data has returned the records of a cube that was never rotated
C17_Witness ==
    /\ mdl_op.name = "get_face_data"
    /\ OfIdentityCube
    /\ mdl.orientation = QIdentity
    /\ face_data[2].vs = <<mdl.vertices[6], mdl.vertices[5], mdl.vertices[8],
                           mdl.vertices[7]>>

\* the increments of the last rotate call that are not zero, in the order
\* Y, X, Z
Increments ==
    SelectSeq(<<[axis |-> <<0, 1000, 0>>, angle |-> mdl_op.arg[2]],
                [axis |-> <<1000, 0, 0>>, angle |-> mdl_op.arg[1]],
                [axis |-> <<0, 0, 1000>>, angle |-> mdl_op.arg[3]]>>,
              LAMBDA e : e.angle # 0)

\* q with the increments of incs applied to it, the first one first
RECURSIVE Applied(_, _)
Applied(q, incs) ==
    IF incs = <<>> THEN q
    ELSE Applied(multiply(from_axis_angle(Head(incs).axis, Head(incs).angle),
                          q),
                 Tail(incs))

\* C18: a rotate call applies its non-zero increments in the order Y, X, Z to
\* the orientation and skips the zero ones, adds exactly one to the frame
\* counter whatever the angles are, and renormalizes the orientation if the
\* counter has become a multiple of 60, and in no other call.
C18_RotateOrderAndRenormalize ==
    mdl_op.name = "rotate" =>
        /\ mdl.frame_count = mdl_op.before.frame_count + 1
        /\ mdl.orientation =
               IF mdl.frame_count % 60 = 0
               THEN QNormalize(Applied(mdl_op.before.orientation, Increments))
               ELSE Applied(mdl_op.before.orientation, Increments)

\* the 60th rotate call, with increments about X and Y whose order matters,
\* has renormalized an orientation that had drifted from unit length
C18_Witness ==
    /\ mdl_op.name = "rotate"
    /\ mdl.frame_count = 60
    /\ Len(Increments) = 2
    /\ Applied(mdl_op.before.orientation, Increments)
           # ComposedXYZ(mdl_op.before.orientation, mdl_op.arg[1],
                         mdl_op.arg[2], mdl_op.arg[3])
    /\ mdl.orientation # Applied(mdl_op.before.orientation, Increments)

\* the lengths of the live and the original vertex buffers are the same
SameLength == Len(mdl.vertices) = Len(mdl.original_vertices)

\* C19: after any rotate and get_face_data calls the original vertices and
\* the faces are as they were set at construction, there are as many live
\* vertices as original ones, and bounding_radius() is what it was right
\* after construction.
C19_OriginalsUntouched ==
    /\ mdl.original_vertices = CubeVertices(1500)
    /\ mdl.FACES = CubeFaces
    /\ SameLength
    /\ bounding_radius(mdl) = bounding_radius(NewCube)

\* the cube has been rotated away from where it was made and then asked for
\* its faces
C19_Witness ==
    /\ mdl_op.name = "get_face_data"
    /\ mdl.frame_count > 2
    /\ mdl.vertices # mdl.original_vertices
    /\ face_data # <<>>
    /\ bounding_radius(mdl) = 2598

----------------------------------------------------------------------------
(* Properties of ForestWorld.get_face_data *)

\* C21: a get_face_data call changes neither the chunk map, nor a chunk's
\* face list, nor the mountain cache; a step that adds or removes an entry
\* of the chunk map or of the cache is an update call.
C21_GatheringOnlyReads ==
    [][/\ (world_faces' # world_faces /\ world_faces'.returned) =>
              (chunks' = chunks /\ mtn_cache' = mtn_cache)
       /\ (DOMAIN chunks' # DOMAIN chunks
              \/ DOMAIN mtn_cache' # DOMAIN mtn_cache) =>
              calls' = calls + 1]_vars

\* get_face_data has returned the faces of some loaded chunks and has left
\* out others
C21_Witness ==
    /\ world_faces.returned
    /\ \E i \in DOMAIN world_faces.result :
           world_faces.result[i].kind = "terrain"
    /\ \E k \in DOMAIN chunks :
           ~Included(chunks[k], k, CamPos, world_cam_forward)

\* the face groups get_face_data() would return now that are path markers or
\* belong to the special tree
TreeAndPath ==
    SelectSeq(world_get_face_data(chunks, special_tree, CamPos,
                                  world_cam_forward).result,
              LAMBDA f : f.kind \in {"marker", "oak"})

\* C22: the first update call sets the position and the face data of the
\* special tree, every later update call leaves them as they are, whatever
\* the camera and the render distance have become, and before the first
\* update get_face_data returns no path marker and no face of the tree.
C22_SpecialTreeOnce ==
    /\ [](calls = 0 => (special_tree = NoSpecialTree /\ TreeAndPath = <<>>))
    /\ [][/\ calls = 0 /\ calls' = 1 =>
                 /\ special_tree'.spawned
                 /\ Len(special_tree'.pos) = 2
                 /\ special_tree'.face_data # <<>>
          /\ calls > 0 => special_tree' = special_tree]_vars

\* a third update, after the camera has moved to another chunk and the
\* render distance has changed since the first one, has left the special
\* tree with the path to it
C22_Witness ==
    /\ calls = 3
    /\ special_tree.spawned
    /\ last_update.cam # <<0, 0>>
    /\ last_update.rd = 4
    /\ \E k \in DOMAIN evicted : TRUE
    /\ Len(TreeAndPath) > 1

\* the face groups of a list that belong to the chunk at key k
GroupsOf(result, k) ==
    SelectSeq(result,
              LAMBDA g : /\ g.kind \notin {"marker", "oak"}
                         /\ <<g.at[1], g.at[2]>> = k)

\* where a face group stands in the list: chunk faces, path markers, then
\* the special tree
Rank(g) == IF g.kind = "oak" THEN 2 ELSE IF g.kind = "marker" THEN 1 ELSE 0

\* the horizontal dot product of (centre of chunk k - pos) with fwd, in
\* millionths
DotForward(k, cs, pos, fwd) ==
    (((((k[1] * cs) + (cs \div 2)) * 1000) - pos[1]) * fwd[1])
        + (((((k[2] * cs) + (cs \div 2)) * 1000) - pos[3]) * fwd[3])

\* C26: get_face_data returns the faces of a loaded chunk exactly when the
\* horizontal dot product of (chunk centre - camera position) with the
\* camera forward is at least -1.5 chunk sizes and, for a terrain-only
\* chunk, the squared horizontal distance is at most (10 chunk sizes)^2;
\* the path markers and then the faces of the special tree come after every
\* chunk face.
C26_CullsAndOrder ==
    [][(world_faces' # world_faces /\ world_faces'.returned) =>
          LET result == world_faces'.result
          IN  /\ \A k \in DOMAIN chunks :
                     LET cs == chunks[k].chunk_size
                         near ==
                             ~FartherThan(
                                 (((k[1] * cs) + (cs \div 2)) * 1000)
                                     - CamPos[1],
                                 (((k[2] * cs) + (cs \div 2)) * 1000)
                                     - CamPos[3],
                                 10 * cs)
                         shown ==
                             /\ DotForward(k, cs, CamPos, world_cam_forward)
                                    >= 0 - (cs * 1500 * 1000)
                             /\ chunks[k].terrain_only => near
                     IN  GroupsOf(result, k) =
                             IF shown THEN chunks[k].face_data ELSE <<>>
              /\ \A i \in 1..(Len(result) - 1) :
                     Rank(result[i]) <= Rank(result[i + 1])]_vars

\* get_face_data has returned what it returns now: some terrain-only chunk
\* is in it, another in front of the camera is too far away and left out,
\* a chunk behind the camera is left out, and the path markers and the
\* special tree are at the end
C26_Witness ==
    /\ world_faces.returned
    /\ world_faces.result =
           world_get_face_data(chunks, special_tree, CamPos,
                               world_cam_forward).result
    /\ \E k \in DOMAIN chunks :
           chunks[k].terrain_only /\ GroupsOf(world_faces.result, k) # <<>>
    /\ \E k \in DOMAIN chunks :
           /\ chunks[k].terrain_only
           /\ ~BehindCamera(k, chunks[k].chunk_size, CamPos,
                            world_cam_forward)
           /\ GroupsOf(world_faces.result, k) = <<>>
    /\ \E k \in DOMAIN chunks :
           /\ ~chunks[k].terrain_only
           /\ GroupsOf(world_faces.result, k) = <<>>
    /\ \E i \in DOMAIN world_faces.result :
           world_faces.result[i].kind = "marker"
    /\ world_faces.result[Len(world_faces.result)].kind = "oak"

\* the keys of the loaded chunks whose faces get_face_data() would return
\* now
ReturnedChunks ==
    {k \in DOMAIN chunks : Included(chunks[k], k, CamPos, world_cam_forward)}

\* C29: get_face_data culls with the camera position and forward of the
\* most recent update() call: a move_forward, move_right, move_up or turn
\* made after that call does not change which chunks' faces it returns.
C29_CullsWithCameraOfLastUpdate ==
    [][(calls > 0 /\ calls' = calls /\ cam' # cam) =>
           ReturnedChunks' = ReturnedChunks]_vars

----------------------------------------------------------------------------
(* Properties of the mountain cache *)

\* key k is within the mountain radius of the camera chunk of the last
\* update and in neither its tier 1 nor its tier 2
BeyondTerrain(k) ==
    /\ InSquare(k, last_update.cam, MtnRd(last_update.rd))
    /\ ~InSquare(k, last_update.cam, last_update.rd)
    /\ ~(/\ InSquare(k, last_update.cam, TerrainRd(last_update.rd))
         /\ ~InSquare(k, last_update.cam, last_update.rd))

\* chunk_has_mountain(cx, cz, CHUNK_SIZE, s), read from its table over the
\* coordinates any scan can reach
HasMountain(k, s) == <<s, k>> \in MountainTable

\* C23: no update call removes or overwrites an entry of the mountain cache,
\* every cached value is chunk_has_mountain of that coordinate with the
\* world's seed and chunk size, and the tier 3 of a call is the set of
\* coordinates within the mountain radius, outside tiers 1 and 2, whose
\* cached value is true.
C23_CacheOnlyGrows ==
    /\ [][\/ mtn_cache' = mtn_cache
          \/ LET old == DOMAIN mtn_cache
                 new == DOMAIN mtn_cache'
             IN  /\ old \subseteq new
                 /\ \A k \in old : mtn_cache'[k] = mtn_cache[k]]_vars
    /\ [](\A k \in DOMAIN mtn_cache : mtn_cache[k] = HasMountain(k, seed))
    /\ [](calls > 0 =>
             /\ \A k \in Square(last_update.cam, MtnRd(last_update.rd)) :
                    BeyondTerrain(k) => k \in DOMAIN mtn_cache
             /\ last_update.mtn =
                    {k \in DOMAIN mtn_cache :
                         BeyondTerrain(k) /\ mtn_cache[k]})

\* an update after the camera moved to a far chunk has kept the entries of
\* the first scan and added those of the second, mountains among them
C23_Witness ==
    /\ calls >= 2
    /\ \E k \in DOMAIN mtn_cache : ~BeyondTerrain(k) /\ mtn_cache[k]
    /\ \E k \in DOMAIN mtn_cache : BeyondTerrain(k) /\ mtn_cache[k]
    /\ \E k \in DOMAIN mtn_cache : BeyondTerrain(k) /\ ~mtn_cache[k]

\* the union of the three tiers of the last update() call
AllNeeded ==
    Tier1(last_update.cam, last_update.rd)
        \cup Tier2(last_update.cam, last_update.rd) \cup last_update.mtn

\* this step is an update() call with the camera chunk and the render
\* distance of the call before it
RepeatedUpdate ==
    /\ calls > 0
    /\ calls' = calls + 1
    /\ last_update'.cam = last_update.cam
    /\ last_update'.rd = last_update.rd

\* C27: while the camera chunk and the render distance stay as they are, a
\* repeated update() call unloads no chunk; after finitely many calls the
\* chunk map is the union of the three tiers, and from then on a call
\* changes neither the chunk map nor the mountain cache.
C27_SettlesToTiers ==
    /\ [][RepeatedUpdate =>
              /\ last_update'.removed = {}
              /\ DOMAIN chunks \subseteq DOMAIN chunks']_vars
    /\ <>[](calls > 0 /\ DOMAIN chunks = AllNeeded)
    /\ [][(RepeatedUpdate /\ DOMAIN chunks = AllNeeded) =>
              (chunks' = chunks /\ mtn_cache' = mtn_cache)]_vars

\* after a move that made the first call at the new place unload chunks,
\* the calls there have loaded all three tiers, mountains among them, and
\* one more call has created nothing
C27_Witness ==
    /\ mode = "settle"
    /\ last_update.cam # <<0, 0>>
    /\ DOMAIN evicted # {}
    /\ stable > 2
    /\ last_update.mtn # {}
    /\ DOMAIN chunks = AllNeeded
    /\ last_update.created = <<>>

----------------------------------------------------------------------------
(* Properties of chunk_has_mountain *)

\* C24: whatever the seed, chunk_has_mountain returns true for the chunk
\* whose square contains world point (6, 45), chunk (0, 3) at chunk size 12,
\* also where the mountain noise at its centre is below the threshold.
C24_LandmarkAlwaysMountain ==
    (/\ mtn_io.returned
     /\ mtn_io.cx = 6 \div mtn_io.cs
     /\ mtn_io.cz = 45 \div mtn_io.cs)
        => mtn_io.result

\* chunk (0, 3) of size 12 asked about with a seed whose noise there is
\* below the threshold
C24_Witness ==
    /\ mtn_io.returned
    /\ mtn_io.cs = CHUNK_SIZE
    /\ <<mtn_io.cx, mtn_io.cz>> = <<0, 3>>
    /\ mtn_io.sd # 42
    /\ ~mtn_io.noisy
    /\ mtn_io.result

----------------------------------------------------------------------------
(* Properties of the frame loop *)

\* the last n events of a log
Tail_(log, n) == SubSeq(log, Len(log) - n + 1, Len(log))

\* C25: every frame written to the terminal, by the run loop and by
\* --frame N, was rasterized after its faces were gathered after an update
\* completed, no frame being rendered without a preceding update, and the
\* running flag is read between frames only.
C25_UpdateBeforeEveryFrame ==
    /\ app.pc \in {"sleep", "exit"} /\ app.frames > 0 =>
           /\ Len(app.log) >= 4
           /\ Tail_(app.log, 3) = <<"get_face_data", "rasterize", "write">>
           /\ app.log[Len(app.log) - 3] \in {"world.update", "model.rotate"}
    /\ app.pc \in {"gather", "rasterize", "write"} =>
           \E i \in DOMAIN app.log :
               app.log[i] \in {"world.update", "model.rotate"}
    /\ app.pc # "none" => \A r \in app.read_at : r.log = <<>>

----------------------------------------------------------------------------
(* Properties of Renderer._draw_line *)

\* C28: _draw_line terminates for every pair of integer end points, also
\* far outside the viewport and for p1 = p2; the last pixel it visits is p2,
\* after exactly max(|dx|, |dy|) steps; it assigns buffer[y][x] and
\* zbuffer[y][x] only for 0 <= x < width and 0 <= y < height.
C28_LineTerminatesInViewport ==
    /\ <>line_io.done
    /\ [](line_io.done =>
             /\ <<line_io.x1, line_io.y1>> = line_io.p2
             /\ line_io.k = Max(Abs(line_io.p2[1] - line_io.p1[1]),
                                Abs(line_io.p2[2] - line_io.p1[2])))
    /\ [](\A c \in line_io.wrote :
             /\ 0 <= c[1] /\ c[1] < Viewport.width
             /\ 0 <= c[2] /\ c[2] < Viewport.height)
    /\ [](\A c \in Pixels :
             (buffer[c] # <<" ">> \/ zbuffer[c] # Z_FAR)
                 => c \in line_io.wrote)

\* a line from far outside the viewport to far outside it on the other
\* side has been drawn through it
C28_Witness ==
    /\ line_io.done
    /\ line_io.p1 = <<-30, -20>>
    /\ line_io.p2 = <<9, 7>>
    /\ line_io.k = 39
    /\ line_io.wrote # {}

----------------------------------------------------------------------------
(* Properties of SpinningModel.update in forest mode *)

\* C30: in forest mode, after the construction and after every call of
\* SpinningModel.update, the fog distance of the renderer is 12 times the
\* render distance of the world, and the render distance is at least the
\* base render distance and at most the base plus 4, at any camera height.
C30_FogFollowsRenderDistance ==
    (app.pc = "ready" /\ app.forest_mode) =>
        /\ renderer.fog_distance = 12000 * render_distance
        /\ render_distance >= app.base_render_dist
        /\ render_distance <= app.base_render_dist + 4

\* an update on high ground has raised the render distance, and the next
\* one, in a hollow below y = 0, has brought it back to the base and has
\* unloaded chunks
C30_Witness ==
    /\ app.pc = "ready"
    /\ app.updates = 2
    /\ cam.position[2] < 0
    /\ render_distance = app.base_render_dist
    /\ DOMAIN evicted # {}
    /\ last_update.rd = app.base_render_dist
    /\ renderer.fog_distance = 12000 * app.base_render_dist

=============================================================================
